---- MODULE Spec2Model ----
(***************************************************************************)
(* Fitness-Health-Tracker: the WorkoutPlanner (workout-planner.js), the    *)
(* Storage and Validator modules it is built on, as a state machine.       *)
(*                                                                         *)
(* JavaScript strings are sequences of one-character strings, so that      *)
(* toLowerCase, trim, parseFloat and parseInt are computed character by    *)
(* character as the engine computes them.                                  *)
(***************************************************************************)
EXTENDS Integers, Sequences, FiniteSets, TLC

VARIABLES
    weeklyPlan,     \* WorkoutPlanner.weeklyPlan: {weeklyPlan: day -> exercises, lastModified}
    localStorage,   \* the browser's localStorage, item by key: <<>> (absent) or <<json>>
    last,           \* the last call made on the planner and what it returned
    before,         \* when the last call was an add, a remove or a toggle that
                    \* succeeded: <<the day it named in small letters, the id of its
                    \* exercise, the days of the plan before it>>; <<>> otherwise
    workoutStats    \* what ProgressTracker shows in workout-stats-container

vars == <<weeklyPlan, localStorage, last, before, workoutStats>>

----------------------------------------------------------------------------
(* Bounds of the model.                                                    *)

\* The largest number of exercises the plan holds in the model.
MaxExercises == 3

\* The largest number of entries a history holds in the model.
MaxHistory == 2

----------------------------------------------------------------------------
(* JavaScript values.  A raw value of unknown type is a record             *)
(*   [type, str, num]: str is meaningful for strings, num for numbers.     *)

JSString(s) == [type |-> "string", str |-> s, num |-> 0]
JSNumber(n) == [type |-> "number", str |-> <<>>, num |-> n]
\* A number that parseFloat returned, passed on as a value.
JSFloat(n) == [type |-> "float", str |-> <<>>, num |-> n]
JSNull == [type |-> "null", str |-> <<>>, num |-> 0]
JSUndefined == [type |-> "undefined", str |-> <<>>, num |-> 0]

\* A parsed number: mant * 10^exp10 (negated when neg), or NaN, or +-Infinity.
Num(neg, mant, exp10) == [kind |-> "num", neg |-> neg, mant |-> mant, exp10 |-> exp10]
NaN == [kind |-> "NaN", neg |-> FALSE, mant |-> 0, exp10 |-> 0]
Infinity(neg) == [kind |-> "Infinity", neg |-> neg, mant |-> 0, exp10 |-> 0]

isNaN(n) == n.kind = "NaN"

----------------------------------------------------------------------------
(* Arithmetic.  The numbers the calculators compute with are kept exact,   *)
(* as fractions num / den in lowest terms with den >= 0; 1/0 and -1/0 are  *)
(* Infinity and -Infinity, 0/0 is NaN.  The rounding error of the          *)
(* engine's binary floating point is left out of these numbers; the        *)
(* doubles of the next section have it.                                    *)

RECURSIVE GCD(_, _)
GCD(a, b) == IF b = 0 THEN a ELSE GCD(b, a % b)

Abs(a) == IF a < 0 THEN -a ELSE a
Sign(a) == IF a < 0 THEN -1 ELSE IF a > 0 THEN 1 ELSE 0

RECURSIVE Pow10(_)
Pow10(n) == IF n = 0 THEN 1 ELSE 10 * Pow10(n - 1)

\* num / den in lowest terms.
Fraction(num, den) ==
    IF den = 0 THEN [num |-> Sign(num), den |-> 0]
    ELSE LET g == GCD(Abs(num), Abs(den))
         IN [num |-> Sign(den) * (num \div g), den |-> Abs(den) \div g]

Whole(n) == [num |-> n, den |-> 1]
NotANumber == [num |-> 0, den |-> 0]

IsNaN(x) == x.num = 0 /\ x.den = 0
IsFinite(x) == x.den # 0

\* The value of a parsed number.
Real(n) ==
    CASE n.kind = "NaN" -> NotANumber
      [] n.kind = "Infinity" -> [num |-> IF n.neg THEN -1 ELSE 1, den |-> 0]
      [] OTHER -> LET m == IF n.neg THEN -n.mant ELSE n.mant
                  IN IF n.exp10 >= 0 THEN Whole(m * Pow10(n.exp10))
                     ELSE Fraction(m, Pow10(-n.exp10))

----------------------------------------------------------------------------
(* Binary floating point.  Where the rounding of the engine's numbers      *)
(* matters a number is a double: a sign and a magnitude in units of        *)
(* 2^-Scale with at most Precision significant bits, every operation       *)
(* rounding its exact result to the nearest such number, ties to even.     *)
(* A magnitude is a natural number written in limbs of 15 bits, the least  *)
(* significant first and the most significant not 0.  Doubles below        *)
(* 2^-7, above 2^53, NaN and the infinities are not written this way.      *)

LimbBits == 14 + 1
LimbBase == 2^LimbBits
\* The 52 stored bits of a double and its implicit one.
Precision == 52 + 1
Scale == 4 * LimbBits

RECURSIVE Trim(_)
Trim(a) ==
    IF a = <<>> THEN a
    ELSE IF a[Len(a)] # 0 THEN a
    ELSE Trim(SubSeq(a, 1, Len(a) - 1))

Limb(a, i) == IF i <= Len(a) THEN a[i] ELSE 0

\* The limbs of a small integer.
NatOf(n) == Trim(<<n % LimbBase, (n \div LimbBase) % LimbBase, n \div (LimbBase * LimbBase)>>)

\* The integer of at most two limbs.
IntOf(a) == Limb(a, 1) + Limb(a, 2) * LimbBase

RECURSIVE AddLimbs(_, _, _, _)
AddLimbs(a, b, i, carry) ==
    IF i > Len(a) /\ i > Len(b) THEN (IF carry = 0 THEN <<>> ELSE <<carry>>)
    ELSE <<(Limb(a, i) + Limb(b, i) + carry) % LimbBase>>
             \o AddLimbs(a, b, i + 1, (Limb(a, i) + Limb(b, i) + carry) \div LimbBase)

NatPlus(a, b) == AddLimbs(a, b, 1, 0)

\* a - b for a >= b.
RECURSIVE SubLimbs(_, _, _, _)
SubLimbs(a, b, i, borrow) ==
    IF i > Len(a) THEN <<>>
    ELSE <<(LimbBase + Limb(a, i) - Limb(b, i) - borrow) % LimbBase>>
             \o SubLimbs(a, b, i + 1, IF Limb(a, i) - Limb(b, i) - borrow < 0 THEN 1 ELSE 0)

NatMinus(a, b) == Trim(SubLimbs(a, b, 1, 0))

RECURSIVE LessAt(_, _, _)
LessAt(a, b, i) ==
    IF i = 0 THEN FALSE
    ELSE IF a[i] # b[i] THEN a[i] < b[i]
    ELSE LessAt(a, b, i - 1)

NatLess(a, b) == IF Len(a) # Len(b) THEN Len(a) < Len(b) ELSE LessAt(a, b, Len(a))

\* a times the limb d.
RECURSIVE MulLimbs(_, _, _, _)
MulLimbs(a, d, i, carry) ==
    IF i > Len(a) THEN (IF carry = 0 THEN <<>> ELSE <<carry>>)
    ELSE <<(a[i] * d + carry) % LimbBase>>
             \o MulLimbs(a, d, i + 1, (a[i] * d + carry) \div LimbBase)

RECURSIVE TimesFrom(_, _, _)
TimesFrom(a, b, j) ==
    IF j > Len(b) THEN <<>>
    ELSE AddLimbs(MulLimbs(a, b[j], 1, 0), <<0>> \o TimesFrom(a, b, j + 1), 1, 0)

NatTimes(a, b) == Trim(TimesFrom(a, b, 1))

\* The quotient and the remainder of a by the limb d, from limb i down.
RECURSIVE DivLimbs(_, _, _, _)
DivLimbs(a, d, i, rem) ==
    IF i = 0 THEN <<>>
    ELSE DivLimbs(a, d, i - 1, (rem * LimbBase + a[i]) % d)
             \o <<(rem * LimbBase + a[i]) \div d>>

RECURSIVE RemLimbs(_, _, _, _)
RemLimbs(a, d, i, rem) ==
    IF i = 0 THEN rem ELSE RemLimbs(a, d, i - 1, (rem * LimbBase + a[i]) % d)

NatOver(a, d) == Trim(DivLimbs(a, d, Len(a), 0))
NatRem(a, d) == RemLimbs(a, d, Len(a), 0)

RECURSIVE BitsOf(_)
BitsOf(n) == IF n = 0 THEN 0 ELSE 1 + BitsOf(n \div 2)

BitLength(a) == IF a = <<>> THEN 0 ELSE LimbBits * (Len(a) - 1) + BitsOf(a[Len(a)])

\* a * 2^s and the integer part of a / 2^s.
ShiftLeft(a, s) ==
    Trim([i \in 1..(s \div LimbBits) |-> 0] \o MulLimbs(a, 2^(s % LimbBits), 1, 0))

ShiftRight(a, s) ==
    IF s \div LimbBits >= Len(a) THEN <<>>
    ELSE NatOver(SubSeq(a, s \div LimbBits + 1, Len(a)), 2^(s % LimbBits))

\* q * 2^s or (q + 1) * 2^s, whichever is nearer to q * 2^s + r + (what
\* sticky stands for, less than 1), the even one at a tie.
Chosen(q, r, half, s, sticky) ==
    ShiftLeft(IF NatLess(half, r) \/ (r = half /\ (sticky \/ q[1] % 2 = 1))
              THEN NatPlus(q, <<1>>) ELSE q, s)

RoundedAt(a, s, sticky) ==
    Chosen(ShiftRight(a, s), NatMinus(a, ShiftLeft(ShiftRight(a, s), s)),
           ShiftLeft(<<1>>, s - 1), s, sticky)

\* The natural number of Precision significant bits nearest to a.
NearestEven(a, sticky) ==
    IF BitLength(a) <= Precision THEN a ELSE RoundedAt(a, BitLength(a) - Precision, sticky)

Signed(neg, mag) == [neg |-> neg /\ mag # <<>>, mag |-> mag]

\* a / 10^k: its integer part, and whether anything was cut off.
RECURSIVE Tenths(_, _, _)
Tenths(a, k, sticky) ==
    IF k = 0 THEN [q |-> a, sticky |-> sticky]
    ELSE Tenths(NatOver(a, 10), k - 1, sticky \/ NatRem(a, 10) # 0)

Nearest(t) == ShiftRight(NearestEven(t.q, t.sticky), LimbBits)

\* The double a decimal literal denotes: the one nearest to d / 10^k.
DoubleOfDecimal(neg, d, k) == Signed(neg, Nearest(Tenths(ShiftLeft(d, Scale + LimbBits), k, FALSE)))

\* The number of decimals of a fraction whose denominator divides a power
\* of 10.
RECURSIVE Places10(_, _)
Places10(den, k) == IF (10^k) % den = 0 THEN k ELSE Places10(den, k + 1)

DecimalOf(x, k) == DoubleOfDecimal(x.num < 0, NatOf(Abs(x.num) * ((10^k) \div x.den)), k)

\* The double of a literal of the source, kept as a fraction.
ToDouble(x) == DecimalOf(x, Places10(x.den, 0))

\* The digits of a long decimal literal, four to a group.
RECURSIVE NatOfGroups(_, _)
NatOfGroups(groups, acc) ==
    IF groups = <<>> THEN acc
    ELSE NatOfGroups(Tail(groups), NatPlus(MulLimbs(acc, 10000, 1, 0), NatOf(Head(groups))))

\* The double nearest to the decimal with the digits of groups, the last k
\* of them after the point.
Double(groups, k) == DoubleOfDecimal(FALSE, NatOfGroups(groups, <<>>), k)

\* x * y on doubles.
DoubleTimes(x, y) ==
    Signed(x.neg # y.neg, ShiftRight(NearestEven(NatTimes(x.mag, y.mag), FALSE), Scale))

\* x + y on doubles.
DoublePlus(x, y) ==
    IF x.neg = y.neg THEN Signed(x.neg, NearestEven(NatPlus(x.mag, y.mag), FALSE))
    ELSE IF NatLess(x.mag, y.mag)
    THEN Signed(y.neg, NearestEven(NatMinus(y.mag, x.mag), FALSE))
    ELSE Signed(x.neg, NearestEven(NatMinus(x.mag, y.mag), FALSE))

\* Math.round of the double of sign neg, integer part whole and fraction
\* part: the nearest integer, the greater one at a tie.
RoundOf(neg, whole, part, half) ==
    IF neg THEN -(IntOf(whole) + (IF NatLess(half, part) THEN 1 ELSE 0))
    ELSE IntOf(whole) + (IF NatLess(part, half) THEN 0 ELSE 1)

DoubleRound(x) ==
    RoundOf(x.neg, ShiftRight(x.mag, Scale),
            NatMinus(x.mag, ShiftLeft(ShiftRight(x.mag, Scale), Scale)),
            ShiftLeft(<<1>>, Scale - 1))

\* x - y on doubles.
DoubleMinus(x, y) == DoublePlus(x, Signed(~y.neg, y.mag))

----------------------------------------------------------------------------
(* Exact numbers.                                                          *)

\* x * y: common factors are taken out across before multiplying.
Times(x, y) ==
    LET g == GCD(Abs(x.num), y.den)
        h == GCD(Abs(y.num), x.den)
        a == IF g = 0 THEN x.num ELSE x.num \div g
        d == IF g = 0 THEN y.den ELSE y.den \div g
        c == IF h = 0 THEN y.num ELSE y.num \div h
        b == IF h = 0 THEN x.den ELSE x.den \div h
    IN Fraction(a * c, b * d)

\* x / y: x times the reciprocal of y, that of 0 being Infinity.
Over(x, y) ==
    Times(x, [num |-> IF y.num = 0 THEN y.den ELSE Sign(y.num) * y.den, den |-> Abs(y.num)])

\* x + y
Plus(x, y) ==
    IF x.den = 0 /\ y.den = 0
    THEN (IF x.num = y.num THEN x ELSE NotANumber)
    ELSE LET g == GCD(x.den, y.den)
             xd == IF g = 0 THEN x.den ELSE x.den \div g
             yd == IF g = 0 THEN y.den ELSE y.den \div g
         IN Fraction(x.num * yd + y.num * xd, xd * y.den)

Minus(x, y) == Plus(x, [y EXCEPT !.num = -@])

\* x < y, false when either is NaN.  Two finite numbers are compared by
\* their integer parts first, so that the products stay small.
LessThan(x, y) ==
    /\ ~IsNaN(x) /\ ~IsNaN(y)
    /\ IF x.den = 0 \/ y.den = 0
       THEN (IF x.den = 0 /\ y.den = 0 THEN x.num < y.num
             ELSE IF x.den = 0 THEN x.num < 0 ELSE y.num > 0)
       ELSE IF x.num \div x.den # y.num \div y.den
            THEN x.num \div x.den < y.num \div y.den
            ELSE (x.num % x.den) * y.den < (y.num % y.den) * x.den

\* x >= y, false when either is NaN.
AtLeast(x, y) == ~IsNaN(x) /\ ~IsNaN(y) /\ ~LessThan(x, y)

\* Math.round: the nearest integer, the larger one of two equally near.
Round(x) ==
    IF x.den = 0 THEN x
    ELSE Whole((x.num \div x.den) + (2 * (x.num % x.den) + x.den) \div (2 * x.den))

\* Math.round(x * 10), the product taken on the fraction part only.
RoundTimes10(x) ==
    IF x.den = 0 THEN x
    ELSE Whole(10 * (x.num \div x.den) + (20 * (x.num % x.den) + x.den) \div (2 * x.den))

\* n > 0 on parsed numbers.
GreaterThanZero(n) ==
    \/ n.kind = "Infinity" /\ ~n.neg
    \/ n.kind = "num" /\ ~n.neg /\ n.mant > 0

DecimalDigits == <<"0", "1", "2", "3", "4", "5", "6", "7", "8", "9">>
HexLetters == <<"a", "b", "c", "d", "e", "f">>
HexCapitals == <<"A", "B", "C", "D", "E", "F">>
UpperCase == <<"A", "B", "C", "D", "E", "F", "G", "H", "I", "J", "K", "L", "M",
               "N", "O", "P", "Q", "R", "S", "T", "U", "V", "W", "X", "Y", "Z">>
LowerCase == <<"a", "b", "c", "d", "e", "f", "g", "h", "i", "j", "k", "l", "m",
               "n", "o", "p", "q", "r", "s", "t", "u", "v", "w", "x", "y", "z">>
WhiteSpace == {" ", "\t", "\n", "\r"}

\* The place of character c in seq, 0 when it is not there.
IndexOf(seq, c) ==
    IF \E i \in DOMAIN seq : seq[i] = c
    THEN CHOOSE i \in DOMAIN seq : seq[i] = c
    ELSE 0

\* The value of character c as a digit of the radix, or -1.
DigitValue(c, radix) ==
    LET d == IF IndexOf(DecimalDigits, c) > 0 THEN IndexOf(DecimalDigits, c) - 1
             ELSE IF IndexOf(HexLetters, c) > 0 THEN IndexOf(HexLetters, c) + 9
             ELSE IF IndexOf(HexCapitals, c) > 0 THEN IndexOf(HexCapitals, c) + 9
             ELSE -1
    IN IF d < radix THEN d ELSE -1

Drop(s, n) == SubSeq(s, n + 1, Len(s))
StartsWith(s, p) == Len(s) >= Len(p) /\ SubSeq(s, 1, Len(p)) = p

\* String.prototype.toLowerCase, character by character.
toLowerCase(s) ==
    [i \in DOMAIN s |->
        IF IndexOf(UpperCase, s[i]) > 0 THEN LowerCase[IndexOf(UpperCase, s[i])] ELSE s[i]]

RECURSIVE TrimStart(_)
TrimStart(s) ==
    IF s # <<>> /\ Head(s) \in WhiteSpace THEN TrimStart(Tail(s)) ELSE s

RECURSIVE TrimEnd(_)
TrimEnd(s) ==
    IF s # <<>> /\ s[Len(s)] \in WhiteSpace THEN TrimEnd(SubSeq(s, 1, Len(s) - 1)) ELSE s

\* String.prototype.trim.
trim(s) == TrimEnd(TrimStart(s))

\* The length of the longest prefix of s made of digits of the radix.
RECURSIVE DigitRun(_, _)
DigitRun(s, radix) ==
    IF s # <<>> /\ DigitValue(Head(s), radix) >= 0 THEN 1 + DigitRun(Tail(s), radix) ELSE 0

\* The number the digit string s spells in the radix, continuing from acc.
RECURSIVE DigitsValue(_, _, _)
DigitsValue(s, radix, acc) ==
    IF s = <<>> THEN acc
    ELSE DigitsValue(Tail(s), radix, acc * radix + DigitValue(Head(s), radix))

RECURSIVE NatToString(_)
NatToString(n) ==
    IF n < 10 THEN <<DecimalDigits[n + 1]>>
    ELSE NatToString(n \div 10) \o <<DecimalDigits[(n % 10) + 1]>>

\* n zeros.
Zeros(n) == [i \in 1..n |-> "0"]

\* The digits of a parsed number without the zeros at the end of its
\* fraction: 7050 * 10^-2 is written as 705 * 10^-1.
RECURSIVE Shortest(_)
Shortest(n) ==
    IF n.exp10 < 0 /\ n.mant % 10 = 0
    THEN Shortest([n EXCEPT !.mant = @ \div 10, !.exp10 = @ + 1])
    ELSE n

\* String(n) of a number that came from parseFloat: its decimal digits,
\* 'NaN', 'Infinity'.
\* The digits with zeros in front, so that one digit stands before the
\* decimal point.
Padded(digits, exp10) ==
    IF exp10 < 0 /\ Len(digits) <= -exp10
    THEN Zeros(1 - exp10 - Len(digits)) \o digits
    ELSE digits

\* The digits with the decimal point put -exp10 places from their end, or
\* followed by exp10 zeros.
Pointed(padded, exp10, mant) ==
    IF exp10 >= 0 THEN padded \o Zeros(IF mant = 0 THEN 0 ELSE exp10)
    ELSE SubSeq(padded, 1, Len(padded) + exp10) \o <<".">>
             \o SubSeq(padded, Len(padded) + exp10 + 1, Len(padded))

Written(m) ==
    (IF m.neg /\ m.mant # 0 THEN <<"-">> ELSE <<>>)
        \o Pointed(Padded(NatToString(m.mant), m.exp10), m.exp10, m.mant)

NumberToString(n) ==
    CASE n.kind = "NaN" -> <<"N", "a", "N">>
      [] n.kind = "Infinity" -> (IF n.neg THEN <<"-">> ELSE <<>>) \o <<"I", "n", "f", "i", "n", "i", "t", "y">>
      [] OTHER -> Written(Shortest(n))

\* StringOf of a raw value, as parseFloat and parseInt apply it to their
\* argument.  A "number" of the model is an integer, a "float" a number
\* that parseFloat returned.
StringOf(v) ==
    CASE v.type = "string" -> v.str
      [] v.type = "float" -> NumberToString(v.num)
      [] v.type = "number" ->
            IF v.num < 0 THEN <<"-">> \o NatToString(-v.num) ELSE NatToString(v.num)
      [] v.type = "null" -> <<"n", "u", "l", "l">>
      [] OTHER -> <<"u", "n", "d", "e", "f", "i", "n", "e", "d">>

InfinityLiteral == <<"I", "n", "f", "i", "n", "i", "t", "y">>

\* The exponent part of a decimal literal at the head of s: its value, and 0
\* when s does not start with e/E, an optional sign and a digit.
ExponentOf(s) ==
    IF s # <<>> /\ Head(s) \in {"e", "E"}
    THEN LET t == Tail(s)
             signed == t # <<>> /\ Head(t) \in {"+", "-"}
             u == IF signed THEN Tail(t) ELSE t
             n == DigitRun(u, 10)
             e == DigitsValue(SubSeq(u, 1, n), 10, 0)
         IN IF n = 0 THEN 0 ELSE IF signed /\ Head(t) = "-" THEN -e ELSE e
    ELSE 0

\* The literal read: neg its sign, t what follows the sign, ni the number
\* of digits before the point, afterInt what follows them, hasDot whether
\* that is a point, nf the number of digits after it.
Literal(neg, t, ni, afterInt, hasDot, nf) ==
    IF StartsWith(t, InfinityLiteral) THEN Infinity(neg)
    ELSE IF ni + nf = 0 THEN NaN
    ELSE Num(neg,
             DigitsValue(SubSeq(t, 1, ni) \o
                         (IF hasDot THEN SubSeq(afterInt, 2, 1 + nf) ELSE <<>>), 10, 0),
             ExponentOf(IF hasDot THEN Drop(afterInt, 1 + nf) ELSE afterInt) - nf)

\* The digits after the integer part of t are counted.
Fractional(neg, t, ni, afterInt, hasDot) ==
    Literal(neg, t, ni, afterInt, hasDot,
            IF hasDot THEN DigitRun(Tail(afterInt), 10) ELSE 0)

\* The integer part of t, ni digits long, is followed by a point or not.
Integral(neg, t, ni, afterInt) ==
    Fractional(neg, t, ni, afterInt, afterInt # <<>> /\ Head(afterInt) = ".")

\* The literal after the sign.
Unsigned(neg, t) == Integral(neg, t, DigitRun(t, 10), Drop(t, DigitRun(t, 10)))

\* parseFloat of a string without leading white space: its longest prefix
\* that is a decimal literal, NaN when there is none.
parseFloatOf(s) ==
    LET signed == s # <<>> /\ Head(s) \in {"+", "-"}
    IN Unsigned(signed /\ Head(s) = "-", IF signed THEN Tail(s) ELSE s)

\* The global parseFloat: the longest prefix of the trimmed StringOf(v) that
\* is a decimal literal, NaN when there is none.
parseFloat(v) == parseFloatOf(TrimStart(StringOf(v)))

\* parseInt of a string without leading white space: an optional sign, an
\* optional 0x prefix, then the longest run of digits; NaN when there is
\* none.
parseIntOf(s) ==
    LET signed == s # <<>> /\ Head(s) \in {"+", "-"}
        neg == signed /\ Head(s) = "-"
        t == IF signed THEN Tail(s) ELSE s
        hex == StartsWith(t, <<"0", "x">>) \/ StartsWith(t, <<"0", "X">>)
        radix == IF hex THEN 16 ELSE 10
        u == IF hex THEN Drop(t, 2) ELSE t
        n == DigitRun(u, radix)
    IN IF n = 0 THEN NaN
       ELSE Num(neg, DigitsValue(SubSeq(u, 1, n), radix, 0), 0)

\* The global parseInt without a radix.
parseInt(v) == parseIntOf(TrimStart(StringOf(v)))

----------------------------------------------------------------------------
(* Validator (validation.js).                                              *)

\* !isNaN(num) && num > 0
Positive(num) == ~isNaN(num) /\ GreaterThanZero(num)

\* !isNaN(num) && num >= min && num <= max
Between(num, min, max) ==
    ~isNaN(num) /\ AtLeast(Real(num), Whole(min)) /\ AtLeast(Whole(max), Real(num))

\* Validator.isPositiveNumber
isPositiveNumber(value) == Positive(parseFloat(value))

\* Validator.isNotEmpty
isNotEmpty(value) ==
    value.type = "string" /\ Len(trim(value.str)) > 0

\* isInRange with both bounds excluded.
isInRange_exclusive(value, min, max) ==
    Between(parseFloat(value), min, max) /\ Real(parseFloat(value)) \notin {Whole(min), Whole(max)}

\* Validator.isInRange
isInRange(value, min, max) == Between(parseFloat(value), min, max)

\* Validator.isValidAge
isValidAge(age) == isPositiveNumber(age) /\ isInRange(age, 1, 150)

\* Validator.isValidWeight
isValidWeight(weight) == isPositiveNumber(weight) /\ isInRange(weight, 1, 500)

\* Validator.isValidHeight
isValidHeight(height) == isPositiveNumber(height) /\ isInRange(height, 1, 300)

\* Validator.getErrorMessage
getErrorMessage(validationType, fieldName) ==
    CASE validationType = "empty" -> "Please enter " \o fieldName
      [] validationType = "negative" -> fieldName \o " must be a positive number"
      [] validationType = "nonNumeric" -> "Please enter a valid number for " \o fieldName
      [] validationType = "outOfRange" -> fieldName \o " is out of valid range"
      [] OTHER -> "Invalid input"

----------------------------------------------------------------------------
(* Storage (storage.js) over localStorage.                                 *)

\* push that puts the element in front (unshift).
push_atFront(array, element) == <<element>> \o array

\* Array.prototype.push
push(array, element) == Append(array, element)

\* What JSON.stringify followed by JSON.parse makes of a number: NaN and the
\* infinities are written as null.
JSONNumber(n) ==
    IF n.kind = "num" THEN n ELSE [kind |-> "null", neg |-> FALSE, mant |-> 0, exp10 |-> 0]

JSONExercise(ex) ==
    [ex EXCEPT !.sets = JSONNumber(@), !.reps = JSONNumber(@)]

\* JSON.stringify of a plan: the text is kept as the value JSON.parse reads
\* back from it.  Strings, booleans and arrays are written as they are; a
\* property that is undefined (lastModified of the default plan) is left out.
JSON_stringify(data) ==
    [data EXCEPT !.weeklyPlan =
        [k \in DOMAIN @ |-> [i \in DOMAIN @[k] |-> JSONExercise(@[k][i])]]]

\* What JSON.stringify writes for a number of a calculator: null for NaN
\* and the infinities.
JSONNull == [null |-> TRUE]
JSONFraction(x) == IF "null" \in DOMAIN x THEN x ELSE IF IsFinite(x) THEN x ELSE JSONNull

\* JSON.stringify of a BMI history entry.
JSONBMIEntry(e) ==
    [e EXCEPT !.bmi = JSONFraction(@),
              !.weight.value = JSONFraction(@),
              !.height.value = JSONFraction(@),
              !.height.inches = JSONFraction(@)]

\* JSON.stringify of a calorie history entry.
JSONCalorieEntry(e) ==
    [e EXCEPT !.bmr = JSONFraction(@),
              !.maintenance = JSONFraction(@),
              !.weightLoss = JSONFraction(@),
              !.weightGain = JSONFraction(@),
              !.inputs.age = JSONFraction(@),
              !.inputs.weight.value = JSONFraction(@),
              !.inputs.height.value = JSONFraction(@),
              !.inputs.height.inches = JSONFraction(@)]

\* JSON.stringify of what is saved under a key: the plan, or the array of
\* the entries of a history.
Serialized(key, data) ==
    CASE key = "workout_plan" -> JSON_stringify(data)
      [] key = "bmi_history" -> [i \in DOMAIN data |-> JSONBMIEntry(data[i])]
      [] key = "calorie_history" -> [i \in DOMAIN data |-> JSONCalorieEntry(data[i])]

JSON_parse(serialized) == serialized

\* Storage.save: false, and nothing written, when setItem throws.
\* writeOk is whether localStorage accepts the write.
save(ls, key, data, writeOk) ==
    IF writeOk
    THEN [storage |-> [ls EXCEPT ![key] = <<Serialized(key, data)>>], ret |-> TRUE]
    ELSE [storage |-> ls, ret |-> FALSE]

\* Storage.load: <<>> stands for null.
load(ls, key, readOk) ==
    IF readOk /\ ls[key] # <<>> THEN <<JSON_parse(ls[key][1])>> ELSE <<>>

\* load(key) || []
loadArray(ls, key, readOk) ==
    LET loaded == load(ls, key, readOk)
    IN IF loaded # <<>> THEN loaded[1] ELSE <<>>

\* Storage.saveBMIHistory
saveBMIHistory(ls, bmiData, readOk, writeOk) ==
    LET history == loadArray(ls, "bmi_history", readOk)
    IN save(ls, "bmi_history", push(history, bmiData), writeOk).storage

\* Storage.saveWorkoutPlan
saveWorkoutPlan(ls, planData, writeOk) ==
    save(ls, "workout_plan", planData, writeOk).storage

\* WorkoutPlanner.days
days == << <<"m", "o", "n", "d", "a", "y">>,
           <<"t", "u", "e", "s", "d", "a", "y">>,
           <<"w", "e", "d", "n", "e", "s", "d", "a", "y">>,
           <<"t", "h", "u", "r", "s", "d", "a", "y">>,
           <<"f", "r", "i", "d", "a", "y">>,
           <<"s", "a", "t", "u", "r", "d", "a", "y">>,
           <<"s", "u", "n", "d", "a", "y">> >>

\* The default plan of Storage.loadWorkoutPlan: seven empty days and no
\* lastModified (<<>>).
DefaultPlan ==
    [weeklyPlan |-> [k \in {days[i] : i \in DOMAIN days} |-> <<>>],
     lastModified |-> <<>>]

\* Storage.loadWorkoutPlan
loadWorkoutPlan(ls, readOk) ==
    LET loaded == load(ls, "workout_plan", readOk)
    IN IF loaded # <<>> THEN loaded[1] ELSE DefaultPlan

----------------------------------------------------------------------------
(* WorkoutPlanner (workout-planner.js).  Every operation is a function of  *)
(* the planner's state and its arguments that returns the new state and    *)
(* what the call returns:                                                  *)
(*   [weeklyPlan, localStorage, ret],                                      *)
(*   ret = [kind, success, error, value].                                  *)

\* {success: false, error} of addExercise.
Failure(error) == [kind |-> "result", success |-> FALSE, error |-> error, value |-> <<>>]
\* {success: true, exercise} of addExercise.
Success(exercise) == [kind |-> "result", success |-> TRUE, error |-> "", value |-> <<exercise>>]
\* return true / return false.
Boolean(b) == [kind |-> "boolean", success |-> b, error |-> "", value |-> <<>>]
\* The call ended in an uncaught TypeError.
Threw == [kind |-> "threw", success |-> FALSE, error |-> "TypeError", value |-> <<>>]
\* The object getWeeklyPlan returns.
Object(o) == [kind |-> "object", success |-> TRUE, error |-> "", value |-> <<o>>]
NoCall == [kind |-> "none", success |-> FALSE, error |-> "", value |-> <<>>]

Outcome(wp, ls, ret) == [weeklyPlan |-> wp, localStorage |-> ls, ret |-> ret]

\* Array.prototype.includes on an array of strings.
includes(array, s) == \E i \in DOMAIN array : array[i] = s

\* obj[key] = value: the property is created when the object has none.
SetProperty(obj, key, value) ==
    [k \in DOMAIN obj \cup {key} |-> IF k = key THEN value ELSE obj[k]]

\* Array.prototype.findIndex(ex => ex.id === exerciseId): the first match,
\* 0 (for -1) when there is none.
findIndex(exercises, exerciseId) ==
    IF \E i \in DOMAIN exercises : exercises[i].id = exerciseId
    THEN CHOOSE i \in DOMAIN exercises :
            /\ exercises[i].id = exerciseId
            /\ \A j \in 1..(i - 1) : exercises[j].id # exerciseId
    ELSE 0

\* splice(index) without its count: everything from index on is removed.
splice_toEnd(exercises, index) == SubSeq(exercises, 1, index - 1)

\* Array.prototype.splice(index, 1)
splice(exercises, index) ==
    SubSeq(exercises, 1, index - 1) \o SubSeq(exercises, index + 1, Len(exercises))

\* WorkoutPlanner._generateExerciseId: `ex_${Date.now()}_${random}`, where
\* random is Math.random().toString(36).substr(2, 9).  The id is kept as the
\* pair of its two parts: the text is one-to-one with the pair, as the first
\* part is made of digits and the second of digits and letters.
_generateExerciseId(now, random) == <<now, random>>

\* WorkoutPlanner._saveToStorage
_saveToStorage(ls, wp, writeOk) == saveWorkoutPlan(ls, wp, writeOk)

\* WorkoutPlanner._loadFromStorage
_loadFromStorage(ls, readOk) == loadWorkoutPlan(ls, readOk)

\* _validateExerciseInput with the checks of sets and reps in the other order.
_validateExerciseInput_repsFirst(exerciseName, sets, reps) ==
    IF ~isNotEmpty(exerciseName)
    THEN [isValid |-> FALSE, error |-> "Please enter an exercise name"]
    ELSE IF ~isPositiveNumber(reps)
    THEN [isValid |-> FALSE, error |-> "Reps must be a positive number"]
    ELSE IF ~isPositiveNumber(sets)
    THEN [isValid |-> FALSE, error |-> "Sets must be a positive number"]
    ELSE [isValid |-> TRUE, error |-> ""]

\* WorkoutPlanner._validateExerciseInput
_validateExerciseInput(exerciseName, sets, reps) ==
    IF ~isNotEmpty(exerciseName)
    THEN [isValid |-> FALSE, error |-> "Please enter an exercise name"]
    ELSE IF ~isPositiveNumber(sets)
    THEN [isValid |-> FALSE, error |-> "Sets must be a positive number"]
    ELSE IF ~isPositiveNumber(reps)
    THEN [isValid |-> FALSE, error |-> "Reps must be a positive number"]
    ELSE [isValid |-> TRUE, error |-> ""]

\* addExercise that stores the name as typed, without trim().
addExercise_keepsSpaces(wp, ls, day, exerciseName, sets, reps, now, random, writeOk) ==
    LET validation == _validateExerciseInput(exerciseName, sets, reps)
    IN IF ~validation.isValid THEN Outcome(wp, ls, Failure(validation.error))
       ELSE IF day.type # "string" THEN Outcome(wp, ls, Threw)
       ELSE IF ~includes(days, toLowerCase(day.str))
       THEN Outcome(wp, ls, Failure("Please select a valid day of the week"))
       ELSE LET exercise == [id |-> _generateExerciseId(now, random),
                             name |-> exerciseName.str,
                             sets |-> parseInt(sets),
                             reps |-> parseInt(reps),
                             completed |-> FALSE,
                             addedAt |-> now]
                key == toLowerCase(day.str)
                pushed == [wp EXCEPT !.weeklyPlan[key] = push(@, exercise),
                                     !.lastModified = <<now>>]
            IN Outcome(pushed, _saveToStorage(ls, pushed, writeOk), Success(exercise))

\* WorkoutPlanner.addExercise.  now is the clock's reading, random the
\* random part of the id, writeOk whether localStorage accepts the write.
\* day.toLowerCase() throws a TypeError when day is not a string, and so does
\* a push on a day the plan has no array for.
addExercise(wp, ls, day, exerciseName, sets, reps, now, random, writeOk) ==
    LET validation == _validateExerciseInput(exerciseName, sets, reps)
    IN IF ~validation.isValid THEN Outcome(wp, ls, Failure(validation.error))
       ELSE IF day.type # "string" THEN Outcome(wp, ls, Threw)
       ELSE IF ~includes(days, toLowerCase(day.str))
       THEN Outcome(wp, ls, Failure("Please select a valid day of the week"))
       ELSE IF toLowerCase(day.str) \notin DOMAIN wp.weeklyPlan THEN Outcome(wp, ls, Threw)
       ELSE LET exercise == [id |-> _generateExerciseId(now, random),
                             name |-> trim(exerciseName.str),
                             sets |-> parseInt(sets),
                             reps |-> parseInt(reps),
                             completed |-> FALSE,
                             addedAt |-> now]
                key == toLowerCase(day.str)
                pushed == [wp EXCEPT !.weeklyPlan[key] = push(@, exercise),
                                     !.lastModified = <<now>>]
            IN Outcome(pushed, _saveToStorage(ls, pushed, writeOk), Success(exercise))

\* removeExercise without the check of index === -1: splice(-1, 1) removes
\* the last exercise of the day.
removeExercise_noNotFoundCheck(wp, ls, day, exerciseId, now, writeOk) ==
    IF day.type # "string" THEN Outcome(wp, ls, Threw)
    ELSE LET dayLower == toLowerCase(day.str)
         IN IF ~includes(days, dayLower) THEN Outcome(wp, ls, Boolean(FALSE))
            ELSE LET exercises == wp.weeklyPlan[dayLower]
                     found == findIndex(exercises, exerciseId)
                     index == IF found = 0 THEN Len(exercises) ELSE found
                     removed ==
                         [wp EXCEPT !.weeklyPlan[dayLower] =
                                        IF index = 0 THEN exercises
                                        ELSE splice(exercises, index),
                                    !.lastModified = <<now>>]
                 IN Outcome(removed, _saveToStorage(ls, removed, writeOk), Boolean(TRUE))

\* WorkoutPlanner.removeExercise
removeExercise(wp, ls, day, exerciseId, now, writeOk) ==
    IF day.type # "string" THEN Outcome(wp, ls, Threw)
    ELSE LET dayLower == toLowerCase(day.str)
         IN IF ~includes(days, dayLower) THEN Outcome(wp, ls, Boolean(FALSE))
            ELSE IF dayLower \notin DOMAIN wp.weeklyPlan THEN Outcome(wp, ls, Threw)
            ELSE LET exercises == wp.weeklyPlan[dayLower]
                     index == findIndex(exercises, exerciseId)
                 IN IF index = 0 THEN Outcome(wp, ls, Boolean(FALSE))
                    ELSE LET removed ==
                                 [wp EXCEPT !.weeklyPlan[dayLower] = splice(exercises, index),
                                            !.lastModified = <<now>>]
                         IN Outcome(removed, _saveToStorage(ls, removed, writeOk),
                                    Boolean(TRUE))

\* toggleExerciseCompletion that marks the exercise completed instead of
\* negating the flag.
toggleExerciseCompletion_setsTrue(wp, ls, day, exerciseId, now, writeOk) ==
    IF day.type # "string" THEN Outcome(wp, ls, Threw)
    ELSE LET dayLower == toLowerCase(day.str)
         IN IF ~includes(days, dayLower) THEN Outcome(wp, ls, Boolean(FALSE))
            ELSE LET exercises == wp.weeklyPlan[dayLower]
                     index == findIndex(exercises, exerciseId)
                 IN IF index = 0 THEN Outcome(wp, ls, Boolean(FALSE))
                    ELSE LET toggled ==
                                 [wp EXCEPT !.weeklyPlan[dayLower][index].completed = TRUE,
                                            !.lastModified = <<now>>]
                         IN Outcome(toggled, _saveToStorage(ls, toggled, writeOk),
                                    Boolean(TRUE))

\* toggleExerciseCompletion that stamps the exercise with completedAt.
Stamped(exercise, now) ==
    [f \in DOMAIN exercise \cup {"completedAt"} |->
        IF f = "completedAt" THEN now
        ELSE IF f = "completed" THEN ~exercise.completed ELSE exercise[f]]

StampedAt(exercises, index, now) ==
    [i \in DOMAIN exercises |-> IF i = index THEN Stamped(exercises[i], now) ELSE exercises[i]]

StampedPlan(wp, dayLower, exerciseId, now) ==
    [wp EXCEPT !.weeklyPlan[dayLower] = StampedAt(@, findIndex(@, exerciseId), now),
               !.lastModified = <<now>>]

toggleExerciseCompletion_stamped(wp, ls, day, exerciseId, now, writeOk) ==
    IF day.type # "string" THEN Outcome(wp, ls, Threw)
    ELSE IF ~includes(days, toLowerCase(day.str)) THEN Outcome(wp, ls, Boolean(FALSE))
    ELSE IF findIndex(wp.weeklyPlan[toLowerCase(day.str)], exerciseId) = 0
    THEN Outcome(wp, ls, Boolean(FALSE))
    ELSE Outcome(StampedPlan(wp, toLowerCase(day.str), exerciseId, now),
                 _saveToStorage(ls, StampedPlan(wp, toLowerCase(day.str), exerciseId, now), writeOk),
                 Boolean(TRUE))

\* WorkoutPlanner.toggleExerciseCompletion: find gives the first exercise
\* of the day with the id.
toggleExerciseCompletion(wp, ls, day, exerciseId, now, writeOk) ==
    IF day.type # "string" THEN Outcome(wp, ls, Threw)
    ELSE LET dayLower == toLowerCase(day.str)
         IN IF ~includes(days, dayLower) THEN Outcome(wp, ls, Boolean(FALSE))
            ELSE IF dayLower \notin DOMAIN wp.weeklyPlan THEN Outcome(wp, ls, Threw)
            ELSE LET exercises == wp.weeklyPlan[dayLower]
                     index == findIndex(exercises, exerciseId)
                 IN IF index = 0 THEN Outcome(wp, ls, Boolean(FALSE))
                    ELSE LET toggled ==
                                 [wp EXCEPT !.weeklyPlan[dayLower][index].completed = ~@,
                                            !.lastModified = <<now>>]
                         IN Outcome(toggled, _saveToStorage(ls, toggled, writeOk),
                                    Boolean(TRUE))

\* getWeeklyPlan that reads the plan back from storage.
getWeeklyPlan_fromStorage(wp, ls) == Outcome(wp, ls, Object(loadWorkoutPlan(ls, TRUE)))

\* WorkoutPlanner.getWeeklyPlan
getWeeklyPlan(wp, ls) == Outcome(wp, ls, Object(wp))

\* clearDay that assigns the empty array under the day as it was given, not
\* under dayLower.
clearDay_everyDay(wp, ls, day, now, writeOk) ==
    IF day.type # "string" THEN Outcome(wp, ls, Threw)
    ELSE IF ~includes(days, toLowerCase(day.str)) THEN Outcome(wp, ls, Boolean(FALSE))
    ELSE Outcome([wp EXCEPT !.weeklyPlan = [k \in DOMAIN @ |-> <<>>], !.lastModified = <<now>>],
                 _saveToStorage(ls, [wp EXCEPT !.weeklyPlan = [k \in DOMAIN @ |-> <<>>],
                                               !.lastModified = <<now>>], writeOk),
                 Boolean(TRUE))

clearDay_keyAsGiven(wp, ls, day, now, writeOk) ==
    IF day.type # "string" THEN Outcome(wp, ls, Threw)
    ELSE LET dayLower == toLowerCase(day.str)
         IN IF ~includes(days, dayLower) THEN Outcome(wp, ls, Boolean(FALSE))
            ELSE LET cleared ==
                         [wp EXCEPT !.weeklyPlan = SetProperty(@, day.str, <<>>),
                                    !.lastModified = <<now>>]
                 IN Outcome(cleared, _saveToStorage(ls, cleared, writeOk), Boolean(TRUE))

\* WorkoutPlanner.clearDay
clearDay(wp, ls, day, now, writeOk) ==
    IF day.type # "string" THEN Outcome(wp, ls, Threw)
    ELSE LET dayLower == toLowerCase(day.str)
         IN IF ~includes(days, dayLower) THEN Outcome(wp, ls, Boolean(FALSE))
            ELSE LET cleared ==
                         [wp EXCEPT !.weeklyPlan = SetProperty(@, dayLower, <<>>),
                                    !.lastModified = <<now>>]
                 IN Outcome(cleared, _saveToStorage(ls, cleared, writeOk), Boolean(TRUE))

\* WorkoutPlanner.initialize: a new page load reads the plan from storage.
initialize(ls, readOk) == Outcome(_loadFromStorage(ls, readOk), ls, NoCall)

----------------------------------------------------------------------------
(* UnitConverter (unit-converter.js).                                      *)

\* 0.453592
LBS_TO_KG == Fraction(453592, 1000000)
\* 2.54
INCHES_TO_CM == Fraction(254, 100)
CM_TO_METERS == 100

\* poundsToKilograms with the factor cut to 0.45.
poundsToKilograms_cut(pounds) == Times(pounds, Fraction(45, 100))

poundsToKilograms(pounds) == Times(pounds, LBS_TO_KG)

feetInchesToCentimeters(feet, inches) ==
    LET totalInches == Plus(Times(feet, Whole(12)), inches)
    IN Times(totalInches, INCHES_TO_CM)

centimetersToMeters(centimeters) == Over(centimeters, Whole(CM_TO_METERS))

----------------------------------------------------------------------------
(* BMICalculator (bmi-calculator.js).                                      *)

\* BMICalculator._determineBMICategory
_determineBMICategory(bmi) ==
    IF LessThan(bmi, Fraction(185, 10)) THEN "Underweight"
    ELSE IF AtLeast(bmi, Fraction(185, 10)) /\ LessThan(bmi, Whole(25)) THEN "Normal"
    ELSE IF AtLeast(bmi, Whole(25)) /\ LessThan(bmi, Whole(30)) THEN "Overweight"
    ELSE "Obese"

\* calculateBMI that divides the square of the height by the weight.
calculateBMI_upsideDown(weight, weightUnit, height, heightUnit, heightInches) ==
    LET weightKg == IF weightUnit = "lbs" THEN poundsToKilograms(weight) ELSE weight
        heightM == IF heightUnit = "ft"
                   THEN centimetersToMeters(feetInchesToCentimeters(height, heightInches))
                   ELSE IF heightUnit = "cm" THEN centimetersToMeters(height)
                   ELSE height
        bmi == Over(Times(heightM, heightM), weightKg)
    IN [bmi |-> Over(RoundTimes10(bmi), Whole(10)),
        category |-> _determineBMICategory(bmi),
        weightKg |-> weightKg,
        heightM |-> heightM]

\* BMICalculator.calculateBMI
calculateBMI(weight, weightUnit, height, heightUnit, heightInches) ==
    LET weightKg == IF weightUnit = "lbs" THEN poundsToKilograms(weight) ELSE weight
        heightM == IF heightUnit = "ft"
                   THEN centimetersToMeters(feetInchesToCentimeters(height, heightInches))
                   ELSE IF heightUnit = "cm" THEN centimetersToMeters(height)
                   ELSE height
        bmi == Over(weightKg, Times(heightM, heightM))
    IN [bmi |-> Over(RoundTimes10(bmi), Whole(10)),
        category |-> _determineBMICategory(bmi),
        weightKg |-> weightKg,
        heightM |-> heightM]

\* !value: a raw value that is '', 0, null or undefined.
Falsy(value) ==
    \/ value.type \in {"null", "undefined"}
    \/ value.type = "string" /\ value.str = <<>>
    \/ value.type = "number" /\ value.num = 0

\* !value || value.trim() === ''
Missing(value) == Falsy(value) \/ (value.type = "string" /\ trim(value.str) = <<>>)

\* _validateInputs with the positivity checks before the numeric ones.
BMICalculator_validateInputs_signFirst(weight, height) ==
    IF Missing(weight)
    THEN [isValid |-> FALSE, error |-> "Please enter both weight and height values"]
    ELSE IF Missing(height)
    THEN [isValid |-> FALSE, error |-> "Please enter both weight and height values"]
    ELSE IF ~isNaN(parseFloat(weight)) /\ ~isPositiveNumber(weight)
    THEN [isValid |-> FALSE, error |-> getErrorMessage("negative", "Weight")]
    ELSE IF ~isNaN(parseFloat(height)) /\ ~isPositiveNumber(height)
    THEN [isValid |-> FALSE, error |-> getErrorMessage("negative", "Height")]
    ELSE IF isNaN(parseFloat(weight))
    THEN [isValid |-> FALSE, error |-> getErrorMessage("nonNumeric", "weight")]
    ELSE IF isNaN(parseFloat(height))
    THEN [isValid |-> FALSE, error |-> getErrorMessage("nonNumeric", "height")]
    ELSE IF ~isValidWeight(JSFloat(parseFloat(weight)))
    THEN [isValid |-> FALSE, error |-> getErrorMessage("outOfRange", "Weight")]
    ELSE IF ~isValidHeight(JSFloat(parseFloat(height)))
    THEN [isValid |-> FALSE, error |-> getErrorMessage("outOfRange", "Height")]
    ELSE [isValid |-> TRUE, error |-> ""]

\* BMICalculator._validateInputs
BMICalculator_validateInputs(weight, height) ==
    IF Missing(weight)
    THEN [isValid |-> FALSE, error |-> "Please enter both weight and height values"]
    ELSE IF Missing(height)
    THEN [isValid |-> FALSE, error |-> "Please enter both weight and height values"]
    ELSE IF isNaN(parseFloat(weight))
    THEN [isValid |-> FALSE, error |-> getErrorMessage("nonNumeric", "weight")]
    ELSE IF isNaN(parseFloat(height))
    THEN [isValid |-> FALSE, error |-> getErrorMessage("nonNumeric", "height")]
    ELSE IF ~isPositiveNumber(weight)
    THEN [isValid |-> FALSE, error |-> getErrorMessage("negative", "Weight")]
    ELSE IF ~isPositiveNumber(height)
    THEN [isValid |-> FALSE, error |-> getErrorMessage("negative", "Height")]
    ELSE IF ~isValidWeight(JSFloat(parseFloat(weight)))
    THEN [isValid |-> FALSE, error |-> getErrorMessage("outOfRange", "Weight")]
    ELSE IF ~isValidHeight(JSFloat(parseFloat(height)))
    THEN [isValid |-> FALSE, error |-> getErrorMessage("outOfRange", "Height")]
    ELSE [isValid |-> TRUE, error |-> ""]

\* BMICalculator._saveToHistory
BMICalculator_saveToHistory(ls, bmi, category, inputs, now, readOk, writeOk) ==
    LET historyEntry == [bmi |-> bmi,
                         category |-> category,
                         weight |-> inputs.weight,
                         height |-> inputs.height,
                         timestamp |-> now]
    IN saveBMIHistory(ls, historyEntry, readOk, writeOk)

\* What a handler leaves: the storage, and what it shows.
Shown(ls, ret) == [localStorage |-> ls, ret |-> ret]

\* BMICalculator._handleCalculate on the values of the form: weight, height
\* and inches are the texts of the inputs, the units the selected options.
\* It shows an error, or the bmi and the category and saves them.
BMICalculator_handleCalculate(ls, weight, weightUnit, height, heightUnit, inches, now, readOk, writeOk) ==
    LET heightInches == IF Falsy(inches) THEN JSNumber(0) ELSE inches
        validation == BMICalculator_validateInputs(weight, height)
        inchesNum == parseFloat(heightInches)
        checked == heightUnit = "ft" /\ ~Falsy(heightInches)
        result == calculateBMI(Real(parseFloat(weight)), weightUnit, Real(parseFloat(height)),
                               heightUnit, Real(parseFloat(heightInches)))
        inputs == [weight |-> [value |-> Real(parseFloat(weight)), unit |-> weightUnit],
                   height |-> [value |-> Real(parseFloat(height)), unit |-> heightUnit,
                               inches |-> Real(parseFloat(heightInches))]]
    IN IF ~validation.isValid THEN Shown(ls, Failure(validation.error))
       ELSE IF checked /\ ~isNaN(inchesNum) /\ AtLeast(Real(inchesNum), Whole(12))
       THEN Shown(ls, Failure("Inches must be less than 12 (use feet for values 12 and above)"))
       ELSE IF checked /\ ~isNaN(inchesNum) /\ LessThan(Real(inchesNum), Whole(0))
       THEN Shown(ls, Failure("Inches must be a positive number"))
       ELSE Shown(BMICalculator_saveToHistory(ls, result.bmi, result.category, inputs, now,
                                              readOk, writeOk),
                  Success([bmi |-> result.bmi, category |-> result.category]))

----------------------------------------------------------------------------
(* CalorieEstimator (calorie-estimator.js).                                *)

\* CalorieEstimator._calculateBMR
\* _calculateBMR that adds 5 whatever the gender.
_calculateBMR_oneBranch(age, gender, weightKg, heightCm) ==
    LET baseCalc == Minus(Plus(Times(Whole(10), weightKg), Times(Fraction(625, 100), heightCm)),
                          Times(Whole(5), age))
    IN Plus(baseCalc, Whole(5))

_calculateBMR(age, gender, weightKg, heightCm) ==
    LET baseCalc == Minus(Plus(Times(Whole(10), weightKg), Times(Fraction(625, 100), heightCm)),
                          Times(Whole(5), age))
    IN IF gender = "male" THEN Plus(baseCalc, Whole(5)) ELSE Minus(baseCalc, Whole(161))

\* The names every object literal inherits a member for from
\* Object.prototype.
ObjectPrototypeMembers ==
    {"constructor", "hasOwnProperty", "isPrototypeOf", "propertyIsEnumerable",
     "toLocaleString", "toString", "valueOf", "__proto__", "__defineGetter__",
     "__defineSetter__", "__lookupGetter__", "__lookupSetter__"}

\* CalorieEstimator._getActivityMultiplier: multipliers[activityLevel] || 1.2.
\* For a name of ObjectPrototypeMembers the lookup finds the inherited
\* member, a function or an object, which is truthy and is returned; the
\* multiplication that follows converts it to NaN.
_getActivityMultiplier(activityLevel) ==
    CASE activityLevel = "sedentary" -> Fraction(12, 10)
      [] activityLevel = "lightly_active" -> Fraction(1375, 1000)
      [] activityLevel = "moderately_active" -> Fraction(155, 100)
      [] activityLevel = "very_active" -> Fraction(1725, 1000)
      [] activityLevel = "extra_active" -> Fraction(19, 10)
      [] activityLevel \in ObjectPrototypeMembers -> NotANumber
      [] OTHER -> Fraction(12, 10)

\* CalorieEstimator._calculateTargets
_calculateTargets(bmr, activityMultiplier) ==
    LET maintenance == Times(bmr, activityMultiplier)
    IN [maintenance |-> maintenance,
        weightLoss |-> Minus(maintenance, Whole(500)),
        weightGain |-> Plus(maintenance, Whole(500))]

\* The centimeters calculateCalories takes a height for.
HeightCm(height, heightUnit, heightInches) ==
    IF heightUnit = "ft" THEN feetInchesToCentimeters(height, heightInches) ELSE height

\* CalorieEstimator.calculateCalories
calculateCalories(age, gender, weight, weightUnit, height, heightUnit, activityLevel, heightInches) ==
    LET weightKg == IF weightUnit = "lbs" THEN poundsToKilograms(weight) ELSE weight
        heightCm == HeightCm(height, heightUnit, heightInches)
        bmr == _calculateBMR(age, gender, weightKg, heightCm)
        targets == _calculateTargets(bmr, _getActivityMultiplier(activityLevel))
    IN [bmr |-> Round(bmr),
        maintenance |-> Round(targets.maintenance),
        weightLoss |-> Round(targets.weightLoss),
        weightGain |-> Round(targets.weightGain)]

\* calculateCalories as the engine evaluates it: the same steps on doubles,
\* each rounded to the nearest double, and Math.round at the end.
poundsToKilograms_double(pounds) == DoubleTimes(pounds, ToDouble(LBS_TO_KG))

feetInchesToCentimeters_double(feet, inches) ==
    DoubleTimes(DoublePlus(DoubleTimes(feet, ToDouble(Whole(12))), inches), ToDouble(INCHES_TO_CM))

BaseCalc_double(age, weightKg, heightCm) ==
    DoubleMinus(DoublePlus(DoubleTimes(ToDouble(Whole(10)), weightKg),
                           DoubleTimes(ToDouble(Fraction(625, 100)), heightCm)),
                DoubleTimes(ToDouble(Whole(5)), age))

_calculateBMR_double(age, gender, weightKg, heightCm) ==
    IF gender = "male" THEN DoublePlus(BaseCalc_double(age, weightKg, heightCm), ToDouble(Whole(5)))
    ELSE DoubleMinus(BaseCalc_double(age, weightKg, heightCm), ToDouble(Whole(161)))

Targets_double(maintenance) ==
    [maintenance |-> maintenance,
     weightLoss |-> DoubleMinus(maintenance, ToDouble(Whole(500))),
     weightGain |-> DoublePlus(maintenance, ToDouble(Whole(500)))]

_calculateTargets_double(bmr, activityMultiplier) == Targets_double(DoubleTimes(bmr, activityMultiplier))

HeightCm_double(height, heightUnit, heightInches) ==
    IF heightUnit = "ft" THEN feetInchesToCentimeters_double(height, heightInches) ELSE height

WeightKg_double(weight, weightUnit) ==
    IF weightUnit = "lbs" THEN poundsToKilograms_double(weight) ELSE weight

Rounded_double(bmr, targets) ==
    [bmr |-> Whole(DoubleRound(bmr)),
     maintenance |-> Whole(DoubleRound(targets.maintenance)),
     weightLoss |-> Whole(DoubleRound(targets.weightLoss)),
     weightGain |-> Whole(DoubleRound(targets.weightGain))]

Estimate_double(bmr, activityLevel) ==
    Rounded_double(bmr, _calculateTargets_double(bmr, ToDouble(_getActivityMultiplier(activityLevel))))

calculateCalories_double(age, gender, weight, weightUnit, height, heightUnit, activityLevel, heightInches) ==
    Estimate_double(_calculateBMR_double(age, gender, WeightKg_double(weight, weightUnit),
                                         HeightCm_double(height, heightUnit, heightInches)),
                    activityLevel)

\* CalorieEstimator._validateInputs: gender and activityLevel are the
\* selected options, '' when none is.
CalorieEstimator_validateInputs(age, gender, weight, height, activityLevel) ==
    IF Missing(age) \/ gender = "" \/ Missing(weight) \/ Missing(height) \/ activityLevel = ""
    THEN [isValid |-> FALSE,
          error |-> "Please fill in all required fields: age, gender, weight, height, and activity level"]
    ELSE IF isNaN(parseFloat(age))
    THEN [isValid |-> FALSE, error |-> getErrorMessage("nonNumeric", "age")]
    ELSE IF isNaN(parseFloat(weight))
    THEN [isValid |-> FALSE, error |-> getErrorMessage("nonNumeric", "weight")]
    ELSE IF isNaN(parseFloat(height))
    THEN [isValid |-> FALSE, error |-> getErrorMessage("nonNumeric", "height")]
    ELSE IF ~isPositiveNumber(JSFloat(parseFloat(age)))
    THEN [isValid |-> FALSE, error |-> getErrorMessage("negative", "Age")]
    ELSE IF ~isPositiveNumber(JSFloat(parseFloat(weight)))
    THEN [isValid |-> FALSE, error |-> getErrorMessage("negative", "Weight")]
    ELSE IF ~isPositiveNumber(JSFloat(parseFloat(height)))
    THEN [isValid |-> FALSE, error |-> getErrorMessage("negative", "Height")]
    ELSE [isValid |-> TRUE, error |-> ""]

\* CalorieEstimator._saveToHistory
CalorieEstimator_saveToHistory(ls, result, inputs, now, readOk, writeOk) ==
    LET historyEntry == [bmr |-> result.bmr,
                         maintenance |-> result.maintenance,
                         weightLoss |-> result.weightLoss,
                         weightGain |-> result.weightGain,
                         inputs |-> inputs,
                         timestamp |-> now]
        history == loadArray(ls, "calorie_history", readOk)
    IN save(ls, "calorie_history", push(history, historyEntry), writeOk).storage

\* The result shown with a warning.
Warned(warning, value) ==
    [kind |-> "result", success |-> TRUE, error |-> warning, value |-> <<value>>]

\* _handleCalculate stopping at the warning as at an error.
CalorieEstimator_handleCalculate_blocking(ls, age, gender, weight, weightUnit, height, heightUnit, activityLevel, inches, now, readOk, writeOk) ==
    IF ~CalorieEstimator_validateInputs(age, gender, weight, height, activityLevel).isValid
    THEN Shown(ls, Failure(CalorieEstimator_validateInputs(age, gender, weight, height, activityLevel).error))
    ELSE Shown(ls, Failure("Results may be less accurate for ages outside 15-120 range"))

\* CalorieEstimator._handleCalculate on the values of the form.  It shows
\* an error, or the three targets (with a warning for an age outside 15-120)
\* and saves the result.
CalorieEstimator_handleCalculate(ls, age, gender, weight, weightUnit, height, heightUnit, activityLevel, inches, now, readOk, writeOk) ==
    LET heightInches == IF Falsy(inches) THEN JSNumber(0) ELSE inches
        validation == CalorieEstimator_validateInputs(age, gender, weight, height, activityLevel)
        ageNum == Real(parseFloat(age))
        warning == IF LessThan(ageNum, Whole(15)) \/ LessThan(Whole(120), ageNum)
                   THEN "Results may be less accurate for ages outside 15-120 range"
                   ELSE ""
        result == calculateCalories(ageNum, gender, Real(parseFloat(weight)), weightUnit,
                                    Real(parseFloat(height)), heightUnit, activityLevel,
                                    Real(parseFloat(heightInches)))
        inputs == [age |-> ageNum,
                   gender |-> gender,
                   weight |-> [value |-> Real(parseFloat(weight)), unit |-> weightUnit],
                   height |-> [value |-> Real(parseFloat(height)), unit |-> heightUnit,
                               inches |-> Real(parseFloat(heightInches))],
                   activityLevel |-> activityLevel]
    IN IF ~validation.isValid THEN Shown(ls, Failure(validation.error))
       ELSE Shown(CalorieEstimator_saveToHistory(ls, result, inputs, now, readOk, writeOk),
                  Warned(warning, [maintenance |-> result.maintenance,
                                   weightLoss |-> result.weightLoss,
                                   weightGain |-> result.weightGain]))

----------------------------------------------------------------------------
(* ProgressTracker (progress-tracker.js).                                  *)

\* a / b, a quotient of two counts, kept as the pair of them.
Quotient(a, b) == [num |-> a, den |-> b]

\* The number of exercises of a day from the i-th on, and of those whose
\* completed is true: exercises.forEach(...) with its two counters.
RECURSIVE CountFrom(_, _)
CountFrom(exercises, i) ==
    IF i > Len(exercises) THEN [total |-> 0, completed |-> 0]
    ELSE LET rest == CountFrom(exercises, i + 1)
         IN [total |-> rest.total + 1,
             completed |-> rest.completed + (IF exercises[i].completed THEN 1 ELSE 0)]

\* The counters after days.forEach(...) from the i-th day on; a day the
\* stored plan has no array for counts as empty.
RECURSIVE CountDaysFrom(_, _)
CountDaysFrom(plan, i) ==
    IF i > Len(days) THEN [total |-> 0, completed |-> 0]
    ELSE LET exercises == IF days[i] \in DOMAIN plan THEN plan[days[i]] ELSE <<>>
             here == CountFrom(exercises, 1)
             rest == CountDaysFrom(plan, i + 1)
         IN [total |-> here.total + rest.total,
             completed |-> here.completed + rest.completed]

\* The later of two dates, <<>> being none: lastWorkoutDate after an
\* exercise completed at the date at.
Later(at, lastWorkoutDate) ==
    IF lastWorkoutDate = <<>> \/ at > lastWorkoutDate[1] THEN <<at>> ELSE lastWorkoutDate

\* lastWorkoutDate after the exercises of a day from the i-th on: the
\* latest completedAt of those that are completed and carry one.
RECURSIVE LatestFrom(_, _, _)
LatestFrom(exercises, i, lastWorkoutDate) ==
    IF i > Len(exercises) THEN lastWorkoutDate
    ELSE IF exercises[i].completed /\ "completedAt" \in DOMAIN exercises[i]
    THEN LatestFrom(exercises, i + 1, Later(exercises[i].completedAt, lastWorkoutDate))
    ELSE LatestFrom(exercises, i + 1, lastWorkoutDate)

RECURSIVE LatestOfDays(_, _, _)
LatestOfDays(plan, i, lastWorkoutDate) ==
    IF i > Len(days) THEN lastWorkoutDate
    ELSE IF days[i] \in DOMAIN plan
    THEN LatestOfDays(plan, i + 1, LatestFrom(plan[days[i]], 1, lastWorkoutDate))
    ELSE LatestOfDays(plan, i + 1, lastWorkoutDate)

\* lastWorkoutDate.toLocaleDateString(...), or 'N/A' when there is none.
DateString(lastWorkoutDate) ==
    IF lastWorkoutDate = <<>> THEN "N/A" ELSE [toLocaleDateString |-> lastWorkoutDate[1]]

\* The statistics of a plan: the loop of _getWorkoutHistory and what it
\* returns.
StatsOf(workoutPlan) ==
    LET counted == CountDaysFrom(workoutPlan.weeklyPlan, 1)
        totalWorkouts == counted.total
        completedWorkouts == counted.completed
        currentWeekWorkouts == counted.completed
    IN [totalWorkouts |-> totalWorkouts,
        currentWeekWorkouts |-> currentWeekWorkouts,
        completionRate |-> IF totalWorkouts > 0
                           THEN Quotient(completedWorkouts, totalWorkouts)
                           ELSE Quotient(0, 1),
        lastWorkoutDate |-> DateString(LatestOfDays(workoutPlan.weeklyPlan, 1, <<>>))]

\* _getWorkoutHistory with a completion rate that is not guarded against an
\* empty plan and a week count that counts every exercise.
_getWorkoutHistory_unguarded(ls, readOk) ==
    LET counted == CountDaysFrom(loadWorkoutPlan(ls, readOk).weeklyPlan, 1)
    IN [totalWorkouts |-> counted.total,
        currentWeekWorkouts |-> counted.total,
        completionRate |-> Quotient(counted.completed, counted.total),
        lastWorkoutDate |-> "N/A"]

\* ProgressTracker._getWorkoutHistory: the statistics of the stored plan.
_getWorkoutHistory(ls, readOk) == StatsOf(loadWorkoutPlan(ls, readOk))

\* (completionRate * 100).toFixed(0): the nearest integer, the larger one
\* of two that are equally near; 'NaN' for 0 / 0.
Percent(q) == IF q.den = 0 THEN "NaN" ELSE (200 * q.num + q.den) \div (2 * q.den)

\* ProgressTracker.updateWorkoutStats: what is written into the container.
updateWorkoutStats(data) ==
    [totalWorkouts |-> data.totalWorkouts,
     thisWeek |-> data.currentWeekWorkouts,
     completionRate |-> Percent(data.completionRate),
     lastWorkout |-> data.lastWorkoutDate]

\* Math.min(...weights) and Math.max(...weights) of finite weights, from the
\* i-th on.
RECURSIVE MinFrom(_, _)
MinFrom(weights, i) ==
    IF i = Len(weights) THEN weights[i]
    ELSE IF LessThan(weights[i], MinFrom(weights, i + 1)) THEN weights[i]
    ELSE MinFrom(weights, i + 1)

RECURSIVE MaxFrom(_, _)
MaxFrom(weights, i) ==
    IF i = Len(weights) THEN weights[i]
    ELSE IF LessThan(MaxFrom(weights, i + 1), weights[i]) THEN weights[i]
    ELSE MaxFrom(weights, i + 1)

\* The bars of the chart: for each entry its height in percent and the
\* weight and unit of its title.  The date under a bar is not modelled.
Bars(data, minWeight, range) ==
    [i \in 1..Len(data) |->
        [height |-> Times(Over(Minus(data[i].weight, minWeight), range), Whole(100)),
         weight |-> data[i].weight,
         unit |-> data[i].unit]]

\* maxWeight - minWeight || 1
RangeOf(difference) == IF difference.num = 0 THEN Whole(1) ELSE difference

\* _renderWeightChart dividing by maxWeight - minWeight as it is.
_renderWeightChart_noDefault(data) ==
    IF Len(data) = 0 THEN [empty |-> TRUE, bars |-> <<>>]
    ELSE [empty |-> FALSE,
          bars |-> Bars(data, MinFrom([i \in 1..Len(data) |-> data[i].weight], 1),
                        Minus(MaxFrom([i \in 1..Len(data) |-> data[i].weight], 1),
                              MinFrom([i \in 1..Len(data) |-> data[i].weight], 1)))]

\* ProgressTracker._renderWeightChart: what is written into the container,
\* the message for no data or the bars.
_renderWeightChart(data) ==
    IF Len(data) = 0 THEN [empty |-> TRUE, bars |-> <<>>]
    ELSE [empty |-> FALSE,
          bars |-> Bars(data, MinFrom([i \in 1..Len(data) |-> data[i].weight], 1),
                        RangeOf(Minus(MaxFrom([i \in 1..Len(data) |-> data[i].weight], 1),
                                      MinFrom([i \in 1..Len(data) |-> data[i].weight], 1))))]

\* ProgressTracker.initialize, its container being on the page.
ProgressTracker_initialize(ls, readOk) == updateWorkoutStats(_getWorkoutHistory(ls, readOk))

----------------------------------------------------------------------------
(* The arguments the calls are made with, and the environment.             *)

Monday == JSString(<<"M", "o", "n", "d", "a", "y">>)
sunday == JSString(<<"s", "u", "n", "d", "a", "y">>)
funday == JSString(<<"f", "u", "n", "d", "a", "y">>)
Squats == JSString(<<" ", "S", "q", "u", "a", "t", "s", " ">>)
Blank == JSString(<<" ", " ">>)

\* Date.now() and new Date(): the readings of the clock during a call.
ClockReadings == {1000}

\* The calls of a session on a browser whose localStorage works: two days
\* (one spelled with a capital), an unknown day and a missing one, and ids
\* with two random parts.
Inputs ==
    [days |-> {Monday, sunday, funday, JSNull},
     names |-> {Squats, Blank},
     sets |-> {JSString(<<"3">>), JSString(<<"a", "b", "c">>)},
     reps |-> {JSNumber(10)},
     randoms |-> {"k3f9x2m1q", "i"},
     clock |-> ClockReadings,
     writeOk |-> {TRUE},
     readOk |-> {TRUE}]

\* The same calls with the raw values a form or a caller may pass as name,
\* sets and reps: strings that are no integers, numbers, blanks.
InputsRaw ==
    [days |-> {Monday, funday, JSNull},
     names |-> {Squats, Blank, JSNumber(123)},
     sets |-> {JSString(<<"3">>), JSString(<<"0", ".", "5">>), JSString(<<".", "5">>),
               JSString(<<"a", "b", "c">>)},
     reps |-> {JSNumber(10), JSString(<<"-", "1">>)},
     randoms |-> {"k3f9x2m1q"},
     clock |-> ClockReadings,
     writeOk |-> {TRUE},
     readOk |-> {TRUE}]

\* The same calls on a browser whose localStorage may refuse any write
\* (quota exceeded, storage disabled) and any read.
InputsUnreliable ==
    [days |-> {Monday, funday},
     names |-> {Squats, Blank},
     sets |-> {JSString(<<"3">>), JSString(<<"a", "b", "c">>)},
     reps |-> {JSNumber(10)},
     randoms |-> {"k3f9x2m1q"},
     clock |-> ClockReadings,
     writeOk |-> BOOLEAN,
     readOk |-> BOOLEAN]

\* A session in which the clock advances between calls.
InputsOrdered ==
    [days |-> {Monday, sunday, funday},
     names |-> {Squats},
     sets |-> {JSString(<<"3">>)},
     reps |-> {JSNumber(10)},
     randoms |-> {"k3f9x2m1q"},
     clock |-> {1000, 1001},
     writeOk |-> {TRUE},
     readOk |-> {TRUE}]

\* A session on the page, with its reloads.
InputsPage ==
    [days |-> {Monday, funday},
     names |-> {Squats},
     sets |-> {JSString(<<"3">>)},
     reps |-> {JSNumber(10)},
     randoms |-> {"k3f9x2m1q", "i"},
     clock |-> ClockReadings,
     writeOk |-> {TRUE},
     readOk |-> {TRUE}]

\* A weight with its unit, a height with its unit and its inches.
Weight(value, unit) == [value |-> value, unit |-> unit]
Height(value, unit, inches) == [value |-> value, unit |-> unit, inches |-> inches]

\* The arguments of the direct calls of the calculators: weights around
\* the category boundaries at 1.70 m, in both units, and heights in the
\* three units.
InputsBMI ==
    [weights |-> {Weight(Fraction(534, 10), "kg"), Weight(Whole(70), "kg"),
                  Weight(Fraction(722, 10), "kg"), Weight(Fraction(7225, 100), "kg"),
                  Weight(Fraction(867, 10), "kg"), Weight(Fraction(1543, 10), "lbs"),
                  Weight(Whole(150), "lbs")},
     heights |-> {Height(Whole(170), "cm", Whole(0)), Height(Whole(180), "cm", Whole(0)),
                  Height(Fraction(17, 10), "m", Whole(0)), Height(Fraction(18, 10), "m", Whole(0)),
                  Height(Whole(5), "ft", Whole(0)), Height(Whole(5), "ft", Whole(6)),
                  Height(Whole(6), "ft", Whole(6))},
     ages |-> {Whole(30)},
     genders |-> {"male", "female", "other"},
     calorieWeights |-> {Weight(Whole(70), "kg"), Weight(Whole(150), "lbs")},
     activityLevels |-> {"sedentary", "lightly_active", "moderately_active", "very_active",
                         "extra_active", "unknown", "constructor"}]

\* What the forms of the two calculators are submitted with: the texts of
\* the inputs and the selected options, '' for an empty input and for no
\* selection.  Reads and writes of localStorage may fail.
InputsHistory ==
    [bmiWeights |-> {JSString(<<"7", "0">>), JSString(<<>>)},
     bmiWeightUnits |-> {"kg"},
     bmiHeights |-> {JSString(<<"5">>)},
     bmiHeightUnits |-> {"ft"},
     bmiInches |-> {JSString(<<>>), JSString(<<"7">>), JSString(<<"x">>),
                    JSString(<<"1", "2">>)},
     ages |-> {JSString(<<"3", "0">>), JSString(<<"1", "0">>)},
     genders |-> {"male", ""},
     weights |-> {JSString(<<"7", "0">>)},
     weightUnits |-> {"kg"},
     heights |-> {JSString(<<"1", "7", "0">>)},
     heightUnits |-> {"cm"},
     inches |-> {JSString(<<>>)},
     activityLevels |-> {"sedentary"},
     clock |-> ClockReadings,
     writeOk |-> BOOLEAN,
     readOk |-> BOOLEAN]

\* The ids remove and toggle are called with: every id the model generates
\* and one that no exercise has.
ExerciseIds(In) ==
    {_generateExerciseId(now, random) : now \in In.clock, random \in In.randoms}
        \cup {<<0, "unknown">>}

\* The number of exercises of a plan.
RECURSIVE TotalFrom(_, _)
TotalFrom(plan, i) ==
    IF i > Len(days) THEN 0
    ELSE (IF days[i] \in DOMAIN plan THEN Len(plan[days[i]]) ELSE 0) + TotalFrom(plan, i + 1)

TotalExercises(wp) == TotalFrom(wp.weeklyPlan, 1)

----------------------------------------------------------------------------
(* The state machine: app.js constructs the planner and initializes it,    *)
(* then the page's handlers call its operations one at a time.             *)

Init ==
    /\ localStorage = [workout_plan |-> <<>>, bmi_history |-> <<>>, calorie_history |-> <<>>]
    /\ weeklyPlan = _loadFromStorage(localStorage, TRUE)
    /\ last = [op |-> "initialize", ret |-> NoCall]
    /\ before = <<>>
    /\ workoutStats = ProgressTracker_initialize(localStorage, TRUE)

\* A call returns: the planner and the storage are as the call left them.
\* The model stops adding exercises at MaxExercises.
Return(op, r, was) ==
    /\ TotalExercises(r.weeklyPlan) <= MaxExercises
    /\ weeklyPlan' = r.weeklyPlan
    /\ localStorage' = r.localStorage
    /\ last' = [op |-> op, ret |-> r.ret]
    /\ before' = IF r.ret.kind \in {"result", "boolean"} /\ r.ret.success THEN was ELSE <<>>
    /\ workoutStats' = workoutStats

\* The page is loaded: the planner is initialized, then the progress
\* tracker, each reading localStorage.
Loaded(r, stats) ==
    /\ TotalExercises(r.weeklyPlan) <= MaxExercises
    /\ weeklyPlan' = r.weeklyPlan
    /\ localStorage' = r.localStorage
    /\ last' = [op |-> "initialize", ret |-> r.ret]
    /\ before' = <<>>
    /\ workoutStats' = stats

\* new Date() and Date.now(): the readings the clock can give now, none
\* earlier than the time the plan was last modified at.
Readings(In) ==
    {now \in In.clock : weeklyPlan.lastModified = <<>> \/ now >= weeklyPlan.lastModified[1]}

AddExercise(In) ==
    \E day \in In.days, exerciseName \in In.names, sets \in In.sets, reps \in In.reps,
       now \in Readings(In), random \in In.randoms, writeOk \in In.writeOk :
        Return("addExercise",
               addExercise(weeklyPlan, localStorage, day, exerciseName, sets, reps,
                           now, random, writeOk),
               <<toLowerCase(day.str), _generateExerciseId(now, random),
                 weeklyPlan.weeklyPlan>>)

RemoveExercise(In) ==
    \E day \in In.days, exerciseId \in ExerciseIds(In), now \in Readings(In),
       writeOk \in In.writeOk :
        Return("removeExercise",
               removeExercise(weeklyPlan, localStorage, day, exerciseId, now, writeOk),
               <<toLowerCase(day.str), exerciseId, weeklyPlan.weeklyPlan>>)

ToggleExerciseCompletion(In) ==
    \E day \in In.days, exerciseId \in ExerciseIds(In), now \in Readings(In),
       writeOk \in In.writeOk :
        Return("toggleExerciseCompletion",
               toggleExerciseCompletion(weeklyPlan, localStorage, day, exerciseId, now,
                                        writeOk),
               <<toLowerCase(day.str), exerciseId, weeklyPlan.weeklyPlan>>)

ClearDay(In) ==
    \E day \in In.days, now \in Readings(In), writeOk \in In.writeOk :
        Return("clearDay", clearDay(weeklyPlan, localStorage, day, now, writeOk), <<>>)

GetWeeklyPlan ==
    Return("getWeeklyPlan", getWeeklyPlan(weeklyPlan, localStorage), <<>>)

\* WorkoutPlanner.initialize is called again: the planner loads its plan
\* from localStorage.
Initialize(In) ==
    \E readOk \in In.readOk :
        Return("initialize", initialize(localStorage, readOk), <<>>)

\* The page is loaded again: app.js constructs the components on the same
\* localStorage and initializes the planner, then the progress tracker.
PageLoad(In) ==
    \E readOk \in In.readOk, statsReadOk \in In.readOk :
        Loaded(initialize(localStorage, readOk),
               ProgressTracker_initialize(localStorage, statsReadOk))

\* calculateBMI is called: what is kept is the call, its arguments and
\* the object it returns.
CalculateBMI(In) ==
    \E weight \in In.weights, height \in In.heights :
        Return("calculateBMI",
               Outcome(weeklyPlan, localStorage,
                       Object([weight |-> weight, height |-> height,
                               result |-> calculateBMI(weight.value, weight.unit, height.value,
                                                       height.unit, height.inches)])),
               <<>>)

\* calculateCalories is called: what is kept is the call, its arguments,
\* the height in centimeters it computes with and the object it returns.
CalculateCalories(In) ==
    \E age \in In.ages, gender \in In.genders, weight \in In.calorieWeights,
       height \in In.heights, activityLevel \in In.activityLevels :
        Return("calculateCalories",
               Outcome(weeklyPlan, localStorage,
                       Object([age |-> age, gender |-> gender, weight |-> weight,
                               height |-> height, activityLevel |-> activityLevel,
                               heightCm |-> HeightCm(height.value, height.unit, height.inches),
                               result |-> calculateCalories(age, gender, weight.value,
                                                            weight.unit, height.value,
                                                            height.unit, activityLevel,
                                                            height.inches)])),
               <<>>)

\* calculateCalories is called with doubles.
CalculateCaloriesOfDoubles(In) ==
    \E age \in In.ages, gender \in In.genders, weight \in In.calorieWeights,
       height \in In.heights, activityLevel \in In.activityLevels :
        Return("calculateCalories",
               Outcome(weeklyPlan, localStorage,
                       Object([age |-> age, gender |-> gender, weight |-> weight,
                               height |-> height, activityLevel |-> activityLevel,
                               result |-> calculateCalories_double(age, gender, weight.value,
                                                                   weight.unit, height.value,
                                                                   height.unit, activityLevel,
                                                                   height.inches)])),
               <<>>)

\* BMICalculator._validateInputs is called: what is kept is the call, its
\* arguments and the object it returns.
ValidateBMIInputs(In) ==
    \E weight \in In.weights, height \in In.heights :
        Return("BMICalculator._validateInputs",
               Outcome(weeklyPlan, localStorage,
                       Object([weight |-> weight, height |-> height,
                               validation |-> BMICalculator_validateInputs(weight, height)])),
               <<>>)

\* The four checks of the Validator are called with one value.
Validate(In) ==
    \E value \in In.values :
        Return("Validator",
               Outcome(weeklyPlan, localStorage,
                       Object([value |-> value,
                               isPositiveNumber |-> isPositiveNumber(value),
                               isValidAge |-> isValidAge(value),
                               isValidWeight |-> isValidWeight(value),
                               isValidHeight |-> isValidHeight(value)])),
               <<>>)

\* The chart is drawn without Chart.js: what is kept is the data and what
\* is written into the container.
RenderWeightChart(In) ==
    \E data \in In.data :
        Return("_renderWeightChart",
               Outcome(weeklyPlan, localStorage,
                       Object([data |-> data, chart |-> _renderWeightChart(data)])),
               <<>>)

\* The array stored under a key of a history, [] when nothing is stored.
StoredLog(ls, key) == IF ls[key] = <<>> THEN <<>> ELSE ls[key][1]

\* The click on Calculate of the calorie estimator, kept with the values of
\* the form, what is shown and the number of entries the history held.
Estimated(age, gender, weight, weightUnit, height, heightUnit, activityLevel, r) ==
    Shown(r.localStorage,
          Object([age |-> age, gender |-> gender, weight |-> weight, weightUnit |-> weightUnit,
                  height |-> height, heightUnit |-> heightUnit,
                  activityLevel |-> activityLevel, shown |-> r.ret,
                  held |-> Len(StoredLog(localStorage, "calorie_history"))]))

\* A handler of a calculator returns: the storage is as it left it and the
\* planner as it was.  The model stops appending at MaxHistory entries.
Handled(op, r) ==
    /\ Len(StoredLog(r.localStorage, "bmi_history")) <= MaxHistory
    /\ Len(StoredLog(r.localStorage, "calorie_history")) <= MaxHistory
    /\ Return(op, Outcome(weeklyPlan, r.localStorage, r.ret), <<>>)

\* The click on Calculate of the BMI calculator.
BMIHandleCalculate(In) ==
    \E weight \in In.bmiWeights, weightUnit \in In.bmiWeightUnits, height \in In.bmiHeights,
       heightUnit \in In.bmiHeightUnits, inches \in In.bmiInches, now \in In.clock,
       readOk \in In.readOk, writeOk \in In.writeOk :
        Handled("BMICalculator._handleCalculate",
                BMICalculator_handleCalculate(localStorage, weight, weightUnit, height,
                                              heightUnit, inches, now, readOk, writeOk))

\* The click on Calculate of the calorie estimator.
CalorieHandleCalculate(In) ==
    \E age \in In.ages, gender \in In.genders, weight \in In.weights,
       weightUnit \in In.weightUnits, height \in In.heights, heightUnit \in In.heightUnits,
       activityLevel \in In.activityLevels, inches \in In.inches, now \in In.clock,
       readOk \in In.readOk, writeOk \in In.writeOk :
        Handled("CalorieEstimator._handleCalculate",
                CalorieEstimator_handleCalculate(localStorage, age, gender, weight,
                                                 weightUnit, height, heightUnit,
                                                 activityLevel, inches, now, readOk,
                                                 writeOk))

\* The click on Calculate of the calorie estimator, with the values of the
\* form kept.
EstimateCalories(In) ==
    \E age \in In.ages, gender \in In.genders, weight \in In.weights,
       weightUnit \in In.weightUnits, height \in In.heights, heightUnit \in In.heightUnits,
       activityLevel \in In.activityLevels, inches \in In.inches, now \in In.clock,
       readOk \in In.readOk, writeOk \in In.writeOk :
        Handled("CalorieEstimator._handleCalculate",
                Estimated(age, gender, weight, weightUnit, height, heightUnit, activityLevel,
                          CalorieEstimator_handleCalculate(localStorage, age, gender, weight,
                                                           weightUnit, height, heightUnit,
                                                           activityLevel, inches, now, readOk,
                                                           writeOk)))

Next ==
    \/ AddExercise(Inputs)
    \/ RemoveExercise(Inputs)
    \/ ToggleExerciseCompletion(Inputs)
    \/ ClearDay(Inputs)
    \/ GetWeeklyPlan
    \/ Initialize(Inputs)

Spec == Init /\ [][Next]_vars

NextRaw ==
    \/ AddExercise(InputsRaw)
    \/ RemoveExercise(InputsRaw)
    \/ ToggleExerciseCompletion(InputsRaw)
    \/ ClearDay(InputsRaw)
    \/ GetWeeklyPlan
    \/ Initialize(InputsRaw)

SpecRaw == Init /\ [][NextRaw]_vars

NextUnreliable ==
    \/ AddExercise(InputsUnreliable)
    \/ RemoveExercise(InputsUnreliable)
    \/ ToggleExerciseCompletion(InputsUnreliable)
    \/ ClearDay(InputsUnreliable)
    \/ GetWeeklyPlan
    \/ Initialize(InputsUnreliable)

SpecUnreliable == Init /\ [][NextUnreliable]_vars

NextOrdered ==
    \/ AddExercise(InputsOrdered)
    \/ RemoveExercise(InputsOrdered)
    \/ ToggleExerciseCompletion(InputsOrdered)
    \/ ClearDay(InputsOrdered)
    \/ GetWeeklyPlan
    \/ Initialize(InputsOrdered)

SpecOrdered == Init /\ [][NextOrdered]_vars

NextPage ==
    \/ AddExercise(InputsPage)
    \/ RemoveExercise(InputsPage)
    \/ ToggleExerciseCompletion(InputsPage)
    \/ ClearDay(InputsPage)
    \/ GetWeeklyPlan
    \/ PageLoad(InputsPage)

SpecPage == Init /\ [][NextPage]_vars

\* The raw values the validations are called with: what a form field may
\* hold, and the values of any type a caller may pass to the Validator.
InputsValidate ==
    [weights |-> {JSString(<<>>), JSString(<<" ", " ">>), JSString(<<"a", "b", "c">>),
                 JSString(<<"0">>), JSString(<<"-", "5">>), JSString(<<"0", ".", "5">>),
                 JSString(<<"1">>), JSString(<<"7", "0">>),
                 JSString(<<" ", "7", "0", " ">>), JSString(<<"7", "0", "k", "g">>),
                 JSString(<<"5", "0", "0">>), JSString(<<"5", "0", "0", ".", "5">>),
                 JSString(<<"5", "0", "1">>),
                 JSString(<<"I", "n", "f", "i", "n", "i", "t", "y">>)},
     heights |-> {JSString(<<>>), JSString(<<" ">>), JSString(<<"x">>), JSString(<<"0">>),
                 JSString(<<"-", "1">>), JSString(<<"0", ".", "9">>), JSString(<<"1">>),
                 JSString(<<"1", "7", "0">>), JSString(<<"3", "0", "0">>),
                 JSString(<<"3", "0", "0", ".", "5">>), JSString(<<"3", "0", "1">>)},
     values |-> {JSNumber(5), JSNumber(0), JSNumber(-5), JSNumber(1), JSNumber(150),
                JSNumber(151), JSNumber(300), JSNumber(301), JSNumber(500), JSNumber(501),
                JSFloat(Num(FALSE, 1, -1)), JSFloat(Num(TRUE, 1, -1)),
                JSFloat(Num(FALSE, 99, -2)), JSFloat(Num(FALSE, 1505, -1)),
                JSFloat(Num(FALSE, 1, -7)), JSFloat(Num(FALSE, 1, 6)),
                JSFloat(Infinity(FALSE)), JSFloat(NaN), JSString(<<"1", "0">>),
                JSString(<<"a", "b", "c">>), JSString(<<>>),
                JSString(<<" ", "4", "2", " ">>), JSString(<<"1", "e", "2">>),
                JSString(<<"1", "2", "a", "b", "c">>), JSString(<<"0", ".", "9", "9">>),
                JSString(<<"-", "0">>), JSString(<<"3", "0", "0", ".", "0">>),
                JSString(<<"5", "0", "0", ".", "0", "1">>), JSNull, JSUndefined}]

\* The values of the calorie form on a browser whose localStorage works:
\* ages within and outside 15-120, fields left empty, no numbers, numbers
\* that are not positive, a weight above every range of the Validator.
InputsEstimate ==
    [ages |-> {JSString(<<"3", "0">>), JSString(<<"1", "0">>), JSString(<<"1", "0", "0", "0">>), JSString(<<"a", "b", "c">>), JSString(<<" ">>)},
     genders |-> {"male", ""},
     weights |-> {JSString(<<"1", "0", "0", "0">>), JSString(<<"0">>)},
     weightUnits |-> {"kg"},
     heights |-> {JSString(<<"1", "7", "0">>), JSString(<<"x">>)},
     heightUnits |-> {"cm"},
     inches |-> {JSString(<<>>)},
     activityLevels |-> {"sedentary", ""},
     clock |-> ClockReadings,
     writeOk |-> {TRUE},
     readOk |-> {TRUE}]

\* The largest number of entries of a weight history in the model.
MaxEntries == 3

\* The entries of a weight history.
WeightEntries ==
    {[date |-> "2024-01-15", weight |-> w, unit |-> "kg"] :
        w \in {Whole(60), Whole(70), Fraction(725, 10), Fraction(7251, 100), Whole(80)}}

\* The weight histories the chart is drawn for, the empty one among them.
InputsChart == [data |-> UNION {[1..n -> WeightEntries] : n \in 0..MaxEntries}]

\* Numbers as the engine holds them, for the calorie calculation in
\* doubles: a weight typed with sixteen digits among them.
InputsDouble ==
    [ages |-> {ToDouble(Whole(30)), ToDouble(Whole(41))},
     genders |-> {"male", "female"},
     calorieWeights |-> {Weight(Double(<<3729, 1666, 6666, 6665>>, 14), "kg"),
                         Weight(ToDouble(Whole(70)), "kg"),
                         Weight(Double(<<1543>>, 1), "lbs")},
     heights |-> {Height(ToDouble(Whole(170)), "cm", ToDouble(Whole(0))),
                  Height(ToDouble(Whole(180)), "cm", ToDouble(Whole(0))),
                  Height(ToDouble(Whole(5)), "ft", ToDouble(Whole(6)))},
     activityLevels |-> {"sedentary", "extra_active", "unknown"}]

NextBMI ==
    \/ CalculateBMI(InputsBMI)
    \/ CalculateCalories(InputsBMI)

SpecBMI == Init /\ [][NextBMI]_vars

NextValidate ==
    \/ ValidateBMIInputs(InputsValidate)
    \/ Validate(InputsValidate)

SpecValidate == Init /\ [][NextValidate]_vars

NextEstimate == EstimateCalories(InputsEstimate)

SpecEstimate == Init /\ [][NextEstimate]_vars

NextChart == RenderWeightChart(InputsChart)

SpecChart == Init /\ [][NextChart]_vars

NextDouble == CalculateCaloriesOfDoubles(InputsDouble)

SpecDouble == Init /\ [][NextDouble]_vars

NextHistory ==
    \/ BMIHandleCalculate(InputsHistory)
    \/ CalorieHandleCalculate(InputsHistory)

SpecHistory == Init /\ [][NextHistory]_vars

----------------------------------------------------------------------------
(* What the claims speak of.                                               *)

DayNames == {days[i] : i \in DOMAIN days}
monday == days[1]

\* day is one of the seven names, in any letter case.
IsDayName(day) == day.type = "string" /\ \E i \in DOMAIN days : toLowerCase(day.str) = days[i]

IdsOf(exercises) == {exercises[i].id : i \in DOMAIN exercises}

\* seq without its i-th element.
Without(seq, i) == [j \in 1..(Len(seq) - 1) |-> IF j < i THEN seq[j] ELSE seq[j + 1]]

Mutating == {"addExercise", "removeExercise", "toggleExerciseCompletion", "clearDay"}

\* The last call was a mutating operation that reported success / failure.
Succeeded(l) == l.op \in Mutating /\ l.ret.kind \in {"result", "boolean"} /\ l.ret.success
ReportsFailure(l) == l.op \in Mutating /\ l.ret.kind \in {"result", "boolean"} /\ ~l.ret.success

\* The places of the plan's exercises: <<day, index>>.
Places(wp) == {<<k, i>> : k \in DayNames \cap DOMAIN wp.weeklyPlan, i \in 1..MaxExercises}
                  \cap {p \in DayNames \X (1..MaxExercises) :
                            p[1] \in DOMAIN wp.weeklyPlan /\ p[2] <= Len(wp.weeklyPlan[p[1]])}

----------------------------------------------------------------------------
\* C1: in every state reached from the default plan (or a plan the planner
\* saved and loaded again) by any calls, successful or failed, the in-memory
\* weeklyPlan has exactly the seven day keys, each bound to a sequence.
C1_SevenDayKeys ==
    /\ DOMAIN weeklyPlan.weeklyPlan = DayNames
    /\ Cardinality(DayNames) = 7
    /\ \A k \in DOMAIN weeklyPlan.weeklyPlan :
           DOMAIN weeklyPlan.weeklyPlan[k] = 1..Len(weeklyPlan.weeklyPlan[k])

\* A day spelled "Monday" was cleared while another day holds exercises.
C1_Witness ==
    /\ last.op = "clearDay" /\ last.ret = Boolean(TRUE)
    /\ weeklyPlan.weeklyPlan[monday] = <<>>
    /\ TotalExercises(weeklyPlan) >= 2

----------------------------------------------------------------------------
\* C2 (state part): removeExercise with an id that is not in the named day
\* returns false and leaves the plan, and so the day's length, and the
\* persisted copy as they are.
C2_UnknownIdKeepsDay ==
    \A day \in InputsUnreliable.days, exerciseId \in ExerciseIds(InputsUnreliable),
       now \in ClockReadings, writeOk \in InputsUnreliable.writeOk :
        (IsDayName(day) /\ exerciseId \notin IdsOf(weeklyPlan.weeklyPlan[toLowerCase(day.str)]))
            => LET r == removeExercise(weeklyPlan, localStorage, day, exerciseId, now, writeOk)
               IN /\ r.ret = Boolean(FALSE)
                  /\ r.weeklyPlan = weeklyPlan
                  /\ r.localStorage = localStorage

\* C2: a call of addExercise, removeExercise, toggleExerciseCompletion or
\* clearDay that reports failure leaves the seven days, every exercise,
\* lastModified and the persisted copy unchanged; removeExercise with an id
\* that is not in the named day is such a call.
C2_FailureChangesNothing ==
    /\ []C2_UnknownIdKeepsDay
    /\ [][ReportsFailure(last') => UNCHANGED <<weeklyPlan, localStorage>>]_vars

\* removeExercise returned false on a day that holds exercises, while the
\* persisted copy is not the plan in memory.
C2_Witness ==
    /\ last.op = "removeExercise" /\ last.ret = Boolean(FALSE)
    /\ weeklyPlan.weeklyPlan[monday] # <<>>
    /\ localStorage.workout_plan # <<JSON_stringify(weeklyPlan)>>

----------------------------------------------------------------------------
\* C3: when storage writes succeed, at the return of every successful
\* addExercise, removeExercise, toggleExerciseCompletion or clearDay the plan
\* stored under 'workout_plan' equals the plan in memory, and a planner
\* initialized afterwards on that storage loads exactly that plan.
C3_StoredPlanIsThePlan ==
    Succeeded(last) =>
        /\ localStorage.workout_plan # <<>>
        /\ JSON_parse(localStorage.workout_plan[1]) = weeklyPlan
        /\ initialize(localStorage, TRUE).weeklyPlan = weeklyPlan

----------------------------------------------------------------------------
\* C4 (getWeeklyPlan): what getWeeklyPlan returned is the plan in memory.
C4_GetReturnsMemory == last.op = "getWeeklyPlan" => last.ret = Object(weeklyPlan)

\* C4 (each operation): a call whose save fails raises nothing, returns what
\* it returns when the save succeeds, leaves the same plan in memory, and
\* leaves the storage as it was.
C4_SaveFailureIsSilent ==
    \A day \in InputsUnreliable.days, now \in ClockReadings :
        /\ \A exerciseName \in InputsUnreliable.names, sets \in InputsUnreliable.sets,
              reps \in InputsUnreliable.reps, random \in InputsUnreliable.randoms :
               LET f == addExercise(weeklyPlan, localStorage, day, exerciseName, sets, reps,
                                    now, random, FALSE)
                   t == addExercise(weeklyPlan, localStorage, day, exerciseName, sets, reps,
                                    now, random, TRUE)
               IN /\ f.ret.kind # "threw" /\ f.ret = t.ret
                  /\ f.weeklyPlan = t.weeklyPlan /\ f.localStorage = localStorage
        /\ \A exerciseId \in ExerciseIds(InputsUnreliable) :
               LET f == removeExercise(weeklyPlan, localStorage, day, exerciseId, now, FALSE)
                   t == removeExercise(weeklyPlan, localStorage, day, exerciseId, now, TRUE)
                   g == toggleExerciseCompletion(weeklyPlan, localStorage, day, exerciseId,
                                                 now, FALSE)
                   u == toggleExerciseCompletion(weeklyPlan, localStorage, day, exerciseId,
                                                 now, TRUE)
               IN /\ f.ret.kind # "threw" /\ f.ret = t.ret
                  /\ f.weeklyPlan = t.weeklyPlan /\ f.localStorage = localStorage
                  /\ g.ret.kind # "threw" /\ g.ret = u.ret
                  /\ g.weeklyPlan = u.weeklyPlan /\ g.localStorage = localStorage
        /\ LET f == clearDay(weeklyPlan, localStorage, day, now, FALSE)
               t == clearDay(weeklyPlan, localStorage, day, now, TRUE)
           IN /\ f.ret.kind # "threw" /\ f.ret = t.ret
              /\ f.weeklyPlan = t.weeklyPlan /\ f.localStorage = localStorage

\* C4 (later operations): a successful add, remove or toggle was made on the
\* plan in memory: the days it did not name are those of the plan in memory
\* before the call, and the day it named differs from it by that call.
C4_LaterCallsSeeMemory ==
    (Succeeded(last) /\ before # <<>>) =>
        LET d == before[1]
            old == before[3]
            new == weeklyPlan.weeklyPlan
        IN /\ \A k \in DayNames \ {d} : new[k] = old[k]
           /\ last.op = "addExercise" => new[d] = Append(old[d], last.ret.value[1])
           /\ last.op = "removeExercise" => Len(new[d]) = Len(old[d]) - 1
           /\ last.op = "toggleExerciseCompletion" =>
                  /\ Len(new[d]) = Len(old[d])
                  /\ new[d] # old[d]

\* C4: when Storage.save fails, addExercise, removeExercise,
\* toggleExerciseCompletion and clearDay raise no exception, still apply
\* their change to the plan in memory and return success, and every later
\* operation and getWeeklyPlan sees the plan in memory, not the persisted one.
C4_MemoryIsTheTruth ==
    /\ last.ret.kind # "threw"
    /\ C4_GetReturnsMemory
    /\ C4_SaveFailureIsSilent
    /\ C4_LaterCallsSeeMemory

\* getWeeklyPlan was called with two exercises in memory and nothing in
\* storage: the saves of both adds failed.
C4_Witness ==
    /\ last.op = "getWeeklyPlan"
    /\ localStorage.workout_plan = <<>>
    /\ Len(weeklyPlan.weeklyPlan[monday]) >= 2

----------------------------------------------------------------------------
\* C5: in every reachable state no two exercises anywhere in the weekly plan
\* share the same id, whatever the addExercise calls of the session
\* (several within the same millisecond included).
C5_UniqueIds ==
    \A p, q \in Places(weeklyPlan) :
        p # q => weeklyPlan.weeklyPlan[p[1]][p[2]].id # weeklyPlan.weeklyPlan[q[1]][q[2]].id

----------------------------------------------------------------------------
\* A stored count is an integer greater than or equal to 1.
IsPositiveInteger(n) == n.kind = "num" /\ ~n.neg /\ n.exp10 >= 0 /\ n.mant >= 1

\* C6: every exercise stored in the weekly plan has sets and reps that are
\* integers greater than or equal to 1, for every sets/reps input that
\* addExercise accepts.
C6_PositiveIntegerCounts ==
    \A p \in Places(weeklyPlan) :
        /\ IsPositiveInteger(weeklyPlan.weeklyPlan[p[1]][p[2]].sets)
        /\ IsPositiveInteger(weeklyPlan.weeklyPlan[p[1]][p[2]].reps)

----------------------------------------------------------------------------
\* value is a string with a character that is not white space.
NonEmptyName(value) == value.type = "string" /\ \E i \in DOMAIN value.str : value.str[i] \notin WhiteSpace

\* t is s without its leading and trailing white space.
IsTrimOf(t, s) ==
    \E lead \in 0..Len(s) :
        /\ lead + Len(t) <= Len(s)
        /\ \A i \in 1..Len(t) : t[i] = s[lead + i]
        /\ \A i \in 1..Len(s) : (i <= lead \/ i > lead + Len(t)) => s[i] \in WhiteSpace
        /\ t # <<>> => (t[1] \notin WhiteSpace /\ t[Len(t)] \notin WhiteSpace)

\* C7 (each call): addExercise with a day name in any letter case, a
\* non-empty name and positive-number sets and reps returns success with the
\* created exercise, which is appended to the lowercase-keyed day, not
\* completed, and named by the trimmed input; the other days stay.
C7_AddAppends ==
    \A day \in InputsRaw.days, exerciseName \in InputsRaw.names, sets \in InputsRaw.sets,
       reps \in InputsRaw.reps, now \in ClockReadings, random \in InputsRaw.randoms :
        (IsDayName(day) /\ NonEmptyName(exerciseName)
                        /\ isPositiveNumber(sets) /\ isPositiveNumber(reps))
            => LET r == addExercise(weeklyPlan, localStorage, day, exerciseName, sets, reps,
                                    now, random, TRUE)
                   d == toLowerCase(day.str)
                   old == weeklyPlan.weeklyPlan
                   new == r.weeklyPlan.weeklyPlan
               IN /\ r.ret.kind = "result" /\ r.ret.success
                  /\ Len(new[d]) = Len(old[d]) + 1
                  /\ new[d] = Append(old[d], r.ret.value[1])
                  /\ new[d][Len(new[d])].completed = FALSE
                  /\ IsTrimOf(new[d][Len(new[d])].name, exerciseName.str)
                  /\ \A k \in DayNames \ {d} : new[k] = old[k]

\* C7: what C7_AddAppends says of each call, and that the state after a
\* successful addExercise is the one before it with the returned exercise,
\* not completed, appended to the named day.
C7_AddExercise ==
    /\ C7_AddAppends
    /\ (last.op = "addExercise" /\ Succeeded(last)) =>
           /\ weeklyPlan.weeklyPlan[before[1]] = Append(before[3][before[1]], last.ret.value[1])
           /\ last.ret.value[1].completed = FALSE
           /\ last.ret.value[1].id = before[2]

\* "Monday" got a second exercise, named "Squats" from the input " Squats ".
C7_Witness ==
    /\ last.op = "addExercise" /\ Succeeded(last)
    /\ before[1] = monday
    /\ Len(before[3][monday]) = 1
    /\ Len(weeklyPlan.weeklyPlan[monday]) = 2
    /\ IsTrimOf(weeklyPlan.weeklyPlan[monday][2].name, Squats.str)
    /\ weeklyPlan.weeklyPlan[monday][2].name # Squats.str

----------------------------------------------------------------------------
\* The error of the first invalid input in the order name, sets, reps, day;
\* "" when all four are valid.
FirstInvalid(exerciseName, sets, reps, day) ==
    IF ~NonEmptyName(exerciseName) THEN "Please enter an exercise name"
    ELSE IF ~isPositiveNumber(sets) THEN "Sets must be a positive number"
    ELSE IF ~isPositiveNumber(reps) THEN "Reps must be a positive number"
    ELSE IF ~IsDayName(day) THEN "Please select a valid day of the week"
    ELSE ""

\* C8: the error addExercise returns is that of the first invalid input in
\* the order name, sets, reps, day; an invalid name, sets or reps is
\* reported whatever the day, and the day error only when the other three
\* are valid.
C8_FirstErrorInOrder ==
    \A day \in InputsRaw.days, exerciseName \in InputsRaw.names, sets \in InputsRaw.sets,
       reps \in InputsRaw.reps, now \in ClockReadings, random \in InputsRaw.randoms :
        LET r == addExercise(weeklyPlan, localStorage, day, exerciseName, sets, reps,
                             now, random, TRUE)
            expected == FirstInvalid(exerciseName, sets, reps, day)
            reported == r.ret.kind = "result" /\ ~r.ret.success
        IN /\ reported => r.ret.error = expected
           /\ (day.type = "string" /\ expected # "") => reported
           /\ (~NonEmptyName(exerciseName) \/ ~isPositiveNumber(sets) \/ ~isPositiveNumber(reps))
                  => (reported /\ r.ret.error # "Please select a valid day of the week")

\* An addExercise on a plan with exercises was refused for its day.
C8_Witness ==
    /\ last.op = "addExercise"
    /\ last.ret = Failure("Please select a valid day of the week")
    /\ weeklyPlan.weeklyPlan[monday] # <<>>

----------------------------------------------------------------------------
\* C9 (each call): removeExercise returns true iff the day is a day name in
\* any letter case and the id is in that day; then one exercise with that
\* id is gone from the day, the others keep their order, the other days stay.
C9_RemoveOne ==
    \A day \in Inputs.days, exerciseId \in ExerciseIds(Inputs), now \in ClockReadings :
        LET r == removeExercise(weeklyPlan, localStorage, day, exerciseId, now, TRUE)
            old == weeklyPlan.weeklyPlan
            new == r.weeklyPlan.weeklyPlan
        IN /\ r.ret = Boolean(TRUE) <=>
                  (IsDayName(day) /\ exerciseId \in IdsOf(old[toLowerCase(day.str)]))
           /\ r.ret = Boolean(TRUE) =>
                  LET d == toLowerCase(day.str)
                  IN /\ Len(new[d]) = Len(old[d]) - 1
                     /\ \E i \in DOMAIN old[d] : old[d][i].id = exerciseId
                                                  /\ new[d] = Without(old[d], i)
                     /\ \A k \in DayNames \ {d} : new[k] = old[k]

\* C9: what C9_RemoveOne says of each call, and that the state after a
\* successful removeExercise is the one before it without one exercise of
\* that id.
C9_RemoveExercise ==
    /\ C9_RemoveOne
    /\ (last.op = "removeExercise" /\ Succeeded(last)) =>
           /\ \E i \in DOMAIN before[3][before[1]] :
                  /\ before[3][before[1]][i].id = before[2]
                  /\ weeklyPlan.weeklyPlan[before[1]] = Without(before[3][before[1]], i)
           /\ \A k \in DayNames \ {before[1]} : weeklyPlan.weeklyPlan[k] = before[3][k]

\* The first of three exercises of a day was removed; the other two remain.
C9_Witness ==
    /\ last.op = "removeExercise" /\ last.ret = Boolean(TRUE)
    /\ Len(before[3][before[1]]) = 3
    /\ before[3][before[1]][1].id = before[2]
    /\ weeklyPlan.weeklyPlan[before[1]] = <<before[3][before[1]][2], before[3][before[1]][3]>>

----------------------------------------------------------------------------
\* The day's exercises with the completed flag of the i-th negated.
Negated(exercises, i) ==
    [j \in DOMAIN exercises |->
        IF j = i THEN [f \in DOMAIN exercises[j] |->
                           IF f = "completed" THEN ~exercises[j].completed ELSE exercises[j][f]]
        ELSE exercises[j]]

\* C10 (each call): toggleExerciseCompletion returns true iff the day is a
\* day name and the id is in that day; then the completed flag of one
\* exercise with that id is negated and nothing else changes, and a second
\* call on the same exercise succeeds and gives back every day as it was.
C10_ToggleOne ==
    \A day \in Inputs.days, exerciseId \in ExerciseIds(Inputs), now \in ClockReadings :
        LET r == toggleExerciseCompletion(weeklyPlan, localStorage, day, exerciseId, now, TRUE)
            old == weeklyPlan.weeklyPlan
            new == r.weeklyPlan.weeklyPlan
        IN /\ r.ret = Boolean(TRUE) <=>
                  (IsDayName(day) /\ exerciseId \in IdsOf(old[toLowerCase(day.str)]))
           /\ r.ret = Boolean(TRUE) =>
                  LET d == toLowerCase(day.str)
                      again == toggleExerciseCompletion(r.weeklyPlan, r.localStorage, day,
                                                        exerciseId, now, TRUE)
                  IN /\ \E i \in DOMAIN old[d] : old[d][i].id = exerciseId
                                                  /\ new[d] = Negated(old[d], i)
                     /\ \A k \in DayNames \ {d} : new[k] = old[k]
                     /\ again.ret = Boolean(TRUE)
                     /\ again.weeklyPlan.weeklyPlan = old

\* C10: what C10_ToggleOne says of each call, and that the state after a
\* successful toggleExerciseCompletion is the one before it with one flag
\* negated.
C10_ToggleExerciseCompletion ==
    /\ C10_ToggleOne
    /\ (last.op = "toggleExerciseCompletion" /\ Succeeded(last)) =>
           /\ \E i \in DOMAIN before[3][before[1]] :
                  /\ before[3][before[1]][i].id = before[2]
                  /\ weeklyPlan.weeklyPlan[before[1]] = Negated(before[3][before[1]], i)
           /\ \A k \in DayNames \ {before[1]} : weeklyPlan.weeklyPlan[k] = before[3][k]

\* An exercise that was completed is not completed again after a second
\* toggle, next to another exercise of the day that kept its flag.
C10_Witness ==
    /\ last.op = "toggleExerciseCompletion" /\ last.ret = Boolean(TRUE)
    /\ Len(before[3][before[1]]) >= 2
    /\ \E i \in DOMAIN before[3][before[1]] :
           /\ before[3][before[1]][i].id = before[2]
           /\ before[3][before[1]][i].completed
           /\ ~weeklyPlan.weeklyPlan[before[1]][i].completed

----------------------------------------------------------------------------
\* C11: clearDay(day) returns true exactly when day is one of the seven
\* names in any letter case, and then that day is empty afterwards, its key
\* still there and the other days as they were; for any other day value it
\* returns false.
C11_ClearDay ==
    \A day \in Inputs.days, now \in ClockReadings :
        LET r == clearDay(weeklyPlan, localStorage, day, now, TRUE)
            new == r.weeklyPlan.weeklyPlan
        IN /\ r.ret = Boolean(TRUE) <=> IsDayName(day)
           /\ IsDayName(day) =>
                  /\ toLowerCase(day.str) \in DOMAIN new
                  /\ new[toLowerCase(day.str)] = <<>>
                  /\ \A k \in DayNames \ {toLowerCase(day.str)} : new[k] = weeklyPlan.weeklyPlan[k]
           /\ ~IsDayName(day) => r.ret = Boolean(FALSE)

\* C11 for the day values that are strings: what the claim says holds.
C11_ClearDayOfStrings ==
    \A day \in {d \in Inputs.days : d.type = "string"}, now \in ClockReadings :
        LET r == clearDay(weeklyPlan, localStorage, day, now, TRUE)
        IN /\ r.ret = Boolean(TRUE) <=> IsDayName(day)
           /\ IsDayName(day) => r.weeklyPlan.weeklyPlan[toLowerCase(day.str)] = <<>>
           /\ ~IsDayName(day) => r.ret = Boolean(FALSE) /\ r.weeklyPlan = weeklyPlan

----------------------------------------------------------------------------
\* C13 (each call): whatever the inputs, a day that is null included,
\* addExercise returns a result and removeExercise,
\* toggleExerciseCompletion and clearDay return a boolean: none raises.
C13_EveryCallReturns ==
    \A day \in Inputs.days, now \in ClockReadings :
        /\ \A exerciseName \in Inputs.names, sets \in Inputs.sets, reps \in Inputs.reps,
              random \in Inputs.randoms :
               addExercise(weeklyPlan, localStorage, day, exerciseName, sets, reps,
                           now, random, TRUE).ret.kind = "result"
        /\ \A exerciseId \in ExerciseIds(Inputs) :
               /\ removeExercise(weeklyPlan, localStorage, day, exerciseId, now, TRUE).ret.kind
                      = "boolean"
               /\ toggleExerciseCompletion(weeklyPlan, localStorage, day, exerciseId, now,
                                           TRUE).ret.kind = "boolean"
        /\ clearDay(weeklyPlan, localStorage, day, now, TRUE).ret.kind = "boolean"

\* C13: for every combination of inputs, a missing or non-string day
\* included, addExercise returns {success: false, error} and
\* removeExercise, toggleExerciseCompletion and clearDay return false for an
\* invalid selection or an unknown id; none of them raises an exception.
C13_NoExceptions ==
    /\ last.ret.kind # "threw"
    /\ C13_EveryCallReturns

----------------------------------------------------------------------------
\* The exercises without their completed flags.
Unflagged(exercises) ==
    [j \in DOMAIN exercises |->
        [f \in DOMAIN exercises[j] \ {"completed"} |-> exercises[j][f]]]

\* C12 (states): along each day no exercise stands before one that was
\* created earlier.
C12_InOrderOfCreation ==
    \A k \in DayNames : \A i, j \in DOMAIN weeklyPlan.weeklyPlan[k] :
        i < j => weeklyPlan.weeklyPlan[k][i].addedAt <= weeklyPlan.weeklyPlan[k][j].addedAt

\* C12 (steps): a step leaves a day's exercises in place, or puts one new
\* exercise behind them, or takes one out from among them, or empties the
\* day; the completed flags aside, it changes nothing else.
C12_KeepsOrder ==
    \A k \in DayNames :
        LET old == Unflagged(weeklyPlan.weeklyPlan[k])
            new == Unflagged(weeklyPlan'.weeklyPlan[k])
        IN \/ new = old
           \/ Len(new) = Len(old) + 1 /\ SubSeq(new, 1, Len(old)) = old
           \/ \E i \in DOMAIN old : new = Without(old, i)
           \/ new = <<>>

\* C12: in every reachable state the exercises of each day are in the order
\* of the addExercise calls that created them: one added later never stands
\* before one added earlier, and removeExercise and
\* toggleExerciseCompletion never reorder those that remain.
C12_InsertionOrder == []C12_InOrderOfCreation /\ [][C12_KeepsOrder]_vars

\* A day holds an exercise created at 1000 followed by one created at 1001
\* after the one that stood between them was removed.
C12_Witness ==
    /\ last.op = "removeExercise" /\ last.ret = Boolean(TRUE)
    /\ Len(before[3][monday]) = 3
    /\ before[3][monday][2].id = before[2]
    /\ Len(weeklyPlan.weeklyPlan[monday]) = 2
    /\ weeklyPlan.weeklyPlan[monday][1].addedAt < weeklyPlan.weeklyPlan[monday][2].addedAt

----------------------------------------------------------------------------
\* C15: after every successful addExercise, removeExercise,
\* toggleExerciseCompletion or clearDay, the workout statistics that
\* ProgressTracker shows (total, this week, completion rate) are those of
\* the current weekly plan.
C15_ShownStatsAreCurrent ==
    Succeeded(last) => workoutStats = updateWorkoutStats(StatsOf(weeklyPlan))

----------------------------------------------------------------------------
\* The exercises of a plan that are completed, by their places.
CompletedPlaces(wp) == {p \in Places(wp) : wp.weeklyPlan[p[1]][p[2]].completed}

\* C16: for any weekly plan the derived statistics are: totalWorkouts the
\* number of exercises over the seven days, currentWeekWorkouts the number
\* of those with completed = true, completionRate completed / total when
\* total > 0 and exactly 0 for a plan without exercises; hence
\* currentWeekWorkouts <= totalWorkouts and 0 <= completionRate <= 1.
C16_DerivedStats ==
    \A readOk \in BOOLEAN :
        LET plan == loadWorkoutPlan(localStorage, readOk)
            stats == _getWorkoutHistory(localStorage, readOk)
            total == Cardinality(Places(plan))
            completed == Cardinality(CompletedPlaces(plan))
        IN /\ stats.totalWorkouts = total
           /\ stats.currentWeekWorkouts = completed
           /\ total > 0 => stats.completionRate = Quotient(completed, total)
           /\ total = 0 => stats.completionRate.num = 0 /\ stats.completionRate.den > 0
           /\ stats.currentWeekWorkouts <= stats.totalWorkouts
           /\ stats.completionRate.den > 0
           /\ 0 <= stats.completionRate.num
           /\ stats.completionRate.num <= stats.completionRate.den

\* The page was loaded on a stored plan of three exercises, one of them
\* completed, and shows 3, 1 and 33%.
C16_Witness ==
    /\ last.op = "initialize"
    /\ Cardinality(Places(weeklyPlan)) = 3
    /\ Cardinality(CompletedPlaces(weeklyPlan)) = 1
    /\ _getWorkoutHistory(localStorage, TRUE).completionRate = Quotient(1, 3)
    /\ workoutStats = [totalWorkouts |-> 3, thisWeek |-> 1, completionRate |-> 33,
                       lastWorkout |-> "N/A"]

\* The object the last direct call of a calculator left.
Called == last.ret.value[1]

\* C17: the category of every result of calculateBMI follows from the
\* result's own bmi field, rounded to one decimal, by the half-open
\* thresholds: Underweight iff bmi < 18.5, Normal iff 18.5 <= bmi < 25.0,
\* Overweight iff 25.0 <= bmi < 30.0, Obese iff bmi >= 30.0.
C17_CategoryFollowsBmi ==
    last.op = "calculateBMI" =>
        LET bmi == Called.result.bmi
            category == Called.result.category
        IN /\ category = "Underweight" <=> LessThan(bmi, Fraction(185, 10))
           /\ category = "Normal" <=>
                  AtLeast(bmi, Fraction(185, 10)) /\ LessThan(bmi, Whole(25))
           /\ category = "Overweight" <=>
                  AtLeast(bmi, Whole(25)) /\ LessThan(bmi, Whole(30))
           /\ category = "Obese" <=> AtLeast(bmi, Whole(30))

\* The category follows from the quotient before it is rounded.
C17_CategoryFollowsQuotient ==
    last.op = "calculateBMI" =>
        LET quotient == Over(Called.result.weightKg,
                             Times(Called.result.heightM, Called.result.heightM))
        IN Called.result.category = _determineBMICategory(quotient)

\* calculateBMI returned a bmi of 18.5 with the category Underweight.
C17_RoundedOverBoundary ==
    /\ last.op = "calculateBMI"
    /\ Called.result.bmi = Fraction(185, 10)
    /\ Called.result.category = "Underweight"

\* The height in meters calculateBMI computes with for the height of the
\* last call.
HeightMOfCalled ==
    calculateBMI(Called.weight.value, Called.weight.unit, Called.height.value,
                 Called.height.unit, Called.height.inches).heightM

\* C18: for the same height, unit (cm, m or ft) and inches, the height in
\* centimeters calculateCalories computes with is 100 times the height in
\* meters calculateBMI computes with.
C18_SameHeightInBoth ==
    /\ last.op = "calculateCalories" =>
           Called.heightCm = Times(Whole(100), HeightMOfCalled)
    /\ last.op = "calculateBMI" =>
           HeightCm(Called.height.value, Called.height.unit, Called.height.inches)
               = Times(Whole(100), Called.result.heightM)

\* The two heights agree for the units cm and ft.
C18_SameHeightInCmAndFt ==
    last.op = "calculateCalories" /\ Called.height.unit \in {"cm", "ft"} =>
        Called.heightCm = Times(Whole(100), HeightMOfCalled)

\* calculateCalories was called with a height of 1.7 m and computed with
\* 1.7 cm.
C18_MetersTakenAsCentimeters ==
    /\ last.op = "calculateCalories"
    /\ Called.height = Height(Fraction(17, 10), "m", Whole(0))
    /\ Called.heightCm = Fraction(17, 10)
    /\ HeightMOfCalled = Fraction(17, 10)

\* |x - y| <= 0.1
Within01(x, y) ==
    /\ ~LessThan(Fraction(1, 10), Minus(x, y))
    /\ ~LessThan(Fraction(1, 10), Minus(y, x))

\* Two results of calculateBMI with the same bmi, within the 0.1 of its
\* rounding, and the same category.
SameBMI(r, q) == Within01(r.bmi, q.bmi) /\ r.category = q.category

\* C19: calculateBMI gives the same bmi and category for the same
\* quantities in different units: a weight of w lbs as for 0.453592 * w kg,
\* a height of f ft i in as for 2.54 * (12 * f + i) cm.
C19_SameInOtherUnits ==
    last.op = "calculateBMI" =>
        LET w == Called.weight
            h == Called.height
        IN /\ w.unit = "lbs" =>
                  SameBMI(Called.result,
                          calculateBMI(Times(Fraction(453592, 1000000), w.value), "kg",
                                       h.value, h.unit, h.inches))
           /\ h.unit = "ft" =>
                  SameBMI(Called.result,
                          calculateBMI(w.value, w.unit,
                                       Times(Fraction(254, 100),
                                             Plus(Times(Whole(12), h.value), h.inches)),
                                       "cm", Whole(0)))

\* calculateBMI was called with 154.3 lbs and 5 ft 6 in and returned 24.9,
\* Normal, as it does for 69.9892456 kg and 167.64 cm.
C19_Witness ==
    /\ last.op = "calculateBMI"
    /\ Called.weight = Weight(Fraction(1543, 10), "lbs")
    /\ Called.height = Height(Whole(5), "ft", Whole(6))
    /\ Called.result.bmi = Fraction(249, 10)
    /\ Called.result.category = "Normal"
    /\ Called.result.weightKg = Fraction(699892456, 10000000)
    /\ Called.result.heightM = Fraction(16764, 10000)

\* The bmi calculateBMI returns for a weight and a height of the inputs.
BmiOf(weight, height) ==
    calculateBMI(weight.value, weight.unit, height.value, height.unit, height.inches).bmi

\* C20: for positive weights and heights in a fixed unit the bmi returned
\* by calculateBMI is monotone: a greater weight at the same height gives
\* no smaller bmi, a greater height (same unit, same inches) at the same
\* weight gives no greater bmi.
C20_Monotone ==
    last.op = "calculateBMI" =>
        /\ \A weight \in InputsBMI.weights :
               /\ weight.unit = Called.weight.unit
               /\ LessThan(Called.weight.value, weight.value)
               => AtLeast(BmiOf(weight, Called.height), Called.result.bmi)
        /\ \A height \in InputsBMI.heights :
               /\ height.unit = Called.height.unit
               /\ height.inches = Called.height.inches
               /\ LessThan(Called.height.value, height.value)
               => AtLeast(Called.result.bmi, BmiOf(Called.weight, height))

\* calculateBMI returned 24.2 for 70 kg at 170 cm; it returns 25.0 for
\* 72.25 kg at 170 cm and 21.6 for 70 kg at 180 cm.
C20_Witness ==
    /\ last.op = "calculateBMI"
    /\ Called.weight = Weight(Whole(70), "kg")
    /\ Called.height = Height(Whole(170), "cm", Whole(0))
    /\ Called.result.bmi = Fraction(242, 10)
    /\ BmiOf(Weight(Fraction(7225, 100), "kg"), Called.height) = Whole(25)
    /\ BmiOf(Called.weight, Height(Whole(180), "cm", Whole(0))) = Fraction(216, 10)

\* One log is the other, or the other with one entry added at its end.
SameOrOneMore(old, new) ==
    \/ new = old
    \/ Len(new) = Len(old) + 1 /\ SubSeq(new, 1, Len(old)) = old

\* C14: the BMI and calorie history logs are append-only: whether the
\* reads and writes of the storage succeed or fail, each step leaves each
\* stored log unchanged or adds exactly one entry at its end, and no
\* stored entry is removed, reordered or modified.
C14_AppendOnly ==
    [][\A key \in {"bmi_history", "calorie_history"} :
          SameOrOneMore(StoredLog(localStorage, key), StoredLog(localStorage', key))]_vars

\* r is x rounded to the nearest integer, a half rounded up.
IsRoundHalfUp(r, x) ==
    /\ r.den = 1
    /\ AtLeast(x, Minus(r, Fraction(1, 2)))
    /\ LessThan(x, Plus(r, Fraction(1, 2)))

\* The weight of the last call in kilograms.
WeightKgOfCalled ==
    IF Called.weight.unit = "lbs" THEN Times(Called.weight.value, Fraction(453592, 1000000))
    ELSE Called.weight.value

\* 10 * weightKg + 6.25 * heightCm - 5 * age of the last call of
\* calculateCalories.
BaseOfCalled ==
    Minus(Plus(Times(Whole(10), WeightKgOfCalled), Times(Fraction(25, 4), Called.heightCm)),
          Times(Whole(5), Called.age))

\* C21: the bmr calculateCalories returns is the round-half-up of
\* 10 * weightKg + 6.25 * heightCm - 5 * age + 5 when the gender is exactly
\* 'male', and of 10 * weightKg + 6.25 * heightCm - 5 * age - 161 for every
\* other gender.
C21_BMRFormula ==
    last.op = "calculateCalories" =>
        IsRoundHalfUp(Called.result.bmr,
                      IF Called.gender = "male" THEN Plus(BaseOfCalled, Whole(5))
                      ELSE Minus(BaseOfCalled, Whole(161)))

\* calculateCalories was called for age 30, male, 70 kg, 170 cm, whose
\* formula gives 1617.5, and returned a bmr of 1618.
C21_Witness ==
    /\ last.op = "calculateCalories"
    /\ Called.age = Whole(30) /\ Called.gender = "male"
    /\ Called.weight = Weight(Whole(70), "kg")
    /\ Called.height = Height(Whole(170), "cm", Whole(0))
    /\ Plus(BaseOfCalled, Whole(5)) = Fraction(16175, 10)
    /\ Called.result.bmr = Whole(1618)

\* The bmr of the last call of calculateCalories before it is rounded.
UnroundedBMROfCalled ==
    IF Called.gender = "male" THEN Plus(BaseOfCalled, Whole(5))
    ELSE Minus(BaseOfCalled, Whole(161))

\* The multiplier of the last call of calculateCalories.
MultiplierOfCalled ==
    CASE Called.activityLevel = "sedentary" -> Fraction(12, 10)
      [] Called.activityLevel = "lightly_active" -> Fraction(1375, 1000)
      [] Called.activityLevel = "moderately_active" -> Fraction(155, 100)
      [] Called.activityLevel = "very_active" -> Fraction(1725, 1000)
      [] Called.activityLevel = "extra_active" -> Fraction(19, 10)
      [] OTHER -> Fraction(12, 10)

\* C22: the maintenance calculateCalories returns is the rounding of the
\* unrounded BMR times the multiplier of the activity level (1.2, 1.375,
\* 1.55, 1.725, 1.9, and 1.2 for every other value), and every activity
\* level gives a result.
C22_MaintenanceOfUnrounded ==
    last.op = "calculateCalories" =>
        IsRoundHalfUp(Called.result.maintenance,
                      Times(UnroundedBMROfCalled, MultiplierOfCalled))

\* It is for every activity level that is not the name of a member of
\* Object.prototype.
C22_MaintenanceOfOwnLevels ==
    last.op = "calculateCalories" /\ Called.activityLevel \notin ObjectPrototypeMembers =>
        IsRoundHalfUp(Called.result.maintenance,
                      Times(UnroundedBMROfCalled, MultiplierOfCalled))

\* calculateCalories returned a maintenance of 1941 for an unrounded BMR of
\* 1617.5 and the multiplier 1.2; the rounded bmr 1618 times 1.2 rounds to
\* 1942.
C22_RoundedAtTheEnd ==
    /\ last.op = "calculateCalories"
    /\ UnroundedBMROfCalled = Fraction(16175, 10)
    /\ Called.activityLevel = "unknown"
    /\ Called.result.bmr = Whole(1618)
    /\ Called.result.maintenance = Whole(1941)
    /\ IsRoundHalfUp(Whole(1942), Times(Called.result.bmr, MultiplierOfCalled))

\* C23: in every result of calculateCalories the three targets are integers
\* with weightLoss = maintenance - 500 and weightGain = maintenance + 500.
C23_TargetsAreOffsets ==
    last.op = "calculateCalories" =>
        /\ Called.result.maintenance.den = 1
        /\ Called.result.weightLoss = Minus(Called.result.maintenance, Whole(500))
        /\ Called.result.weightGain = Plus(Called.result.maintenance, Whole(500))

\* The same relation for the weights of at most four digits: it holds.
C23_OffsetsOfShortWeights ==
    (last.op = "calculateCalories" /\ Called.weight # Weight(Double(<<3729, 1666, 6666, 6665>>, 14), "kg")) =>
        /\ Called.result.weightLoss = Minus(Called.result.maintenance, Whole(500))
        /\ Called.result.weightGain = Plus(Called.result.maintenance, Whole(500))

\* The state the relation fails in: maintenance 1548, weightGain 2049.
C23_GainOneMore ==
    /\ last.op = "calculateCalories"
    /\ Called.result.maintenance = Whole(1548)
    /\ Called.result.weightLoss = Whole(1048)
    /\ Called.result.weightGain = Whole(2049)
\* The number a raw string parses to, and whether the string is blank.
ParsedOf(v) == Real(parseFloatOf(TrimStart(v.str)))
IsBlank(v) == trim(v.str) = <<>>
InClosed(x, min, max) == AtLeast(x, Whole(min)) /\ AtLeast(Whole(max), x)

\* The error of the first check that fails, in the order empty, non-numeric,
\* not positive, out of range, weight before height; "" when none fails.
FirstFailing(w, h) ==
    IF IsBlank(w) \/ IsBlank(h) THEN "Please enter both weight and height values"
    ELSE IF IsNaN(ParsedOf(w)) THEN "Please enter a valid number for weight"
    ELSE IF IsNaN(ParsedOf(h)) THEN "Please enter a valid number for height"
    ELSE IF ~LessThan(Whole(0), ParsedOf(w)) THEN "Weight must be a positive number"
    ELSE IF ~LessThan(Whole(0), ParsedOf(h)) THEN "Height must be a positive number"
    ELSE IF ~InClosed(ParsedOf(w), 1, 500) THEN "Weight is out of valid range"
    ELSE IF ~InClosed(ParsedOf(h), 1, 300) THEN "Height is out of valid range"
    ELSE ""

\* C24: BMICalculator._validateInputs accepts exactly the pairs of strings
\* that are not blank, parse as numbers, weight within [1,500] and height
\* within [1,300]; otherwise its error is that of the first failing check in
\* the order empty, non-numeric, not positive, out of range, weight before
\* height within each kind.
C24_FirstFailingCheck ==
    last.op = "BMICalculator._validateInputs" =>
        /\ Called.validation.isValid =
               (/\ ~IsBlank(Called.weight) /\ ~IsBlank(Called.height)
                /\ InClosed(ParsedOf(Called.weight), 1, 500)
                /\ InClosed(ParsedOf(Called.height), 1, 300))
        /\ Called.validation.error = FirstFailing(Called.weight, Called.height)

\* A weight that is not positive with a height that is no number: the
\* height's error comes first.
C24_Witness ==
    /\ last.op = "BMICalculator._validateInputs"
    /\ Called.weight = JSString(<<"-", "5">>)
    /\ Called.height = JSString(<<"x">>)
    /\ ~Called.validation.isValid
    /\ Called.validation.error = "Please enter a valid number for height"
\* The number a raw value of any type stands for: a number itself, what a
\* string parses to, NaN for null and undefined.
ValueOf(v) ==
    CASE v.type = "number" -> Whole(v.num)
      [] v.type = "float" -> Real(v.num)
      [] v.type = "string" -> ParsedOf(v)
      [] OTHER -> NotANumber

\* C27: for every raw value, isPositiveNumber is true exactly when the value
\* parses to a number greater than 0, and isValidAge, isValidWeight and
\* isValidHeight exactly when it parses to a number within [1,150], [1,500]
\* and [1,300], both bounds included.
C27_ValidatorRanges ==
    last.op = "Validator" =>
        /\ Called.isPositiveNumber = LessThan(Whole(0), ValueOf(Called.value))
        /\ Called.isValidAge = InClosed(ValueOf(Called.value), 1, 150)
        /\ Called.isValidWeight = InClosed(ValueOf(Called.value), 1, 500)
        /\ Called.isValidHeight = InClosed(ValueOf(Called.value), 1, 300)

\* The upper bound of the age, as a number: a valid age, weight and height.
C27_Witness ==
    /\ last.op = "Validator"
    /\ Called.value = JSNumber(150)
    /\ Called.isPositiveNumber /\ Called.isValidAge
    /\ Called.isValidWeight /\ Called.isValidHeight
\* Whether the values of the calorie form are all present, with an age, a
\* weight and a height that parse to numbers greater than 0.
Acceptable(c) ==
    /\ ~IsBlank(c.age) /\ ~IsBlank(c.weight) /\ ~IsBlank(c.height)
    /\ c.gender # "" /\ c.activityLevel # ""
    /\ LessThan(Whole(0), ParsedOf(c.age))
    /\ LessThan(Whole(0), ParsedOf(c.weight))
    /\ LessThan(Whole(0), ParsedOf(c.height))

\* The result of the calculation on the values of the form.
ResultOf(c) ==
    calculateCalories(ParsedOf(c.age), c.gender, ParsedOf(c.weight), c.weightUnit,
                      ParsedOf(c.height), c.heightUnit, c.activityLevel, Whole(0))

\* The result is shown, with a warning exactly for an age outside 15-120,
\* and is the last entry of a history that is one entry longer.
ShownAndAppended(c, result, log) ==
    /\ c.shown.value = <<[maintenance |-> result.maintenance, weightLoss |-> result.weightLoss,
                          weightGain |-> result.weightGain]>>
    /\ (c.shown.error # "") = ~InClosed(ParsedOf(c.age), 15, 120)
    /\ Len(log) = c.held + 1
    /\ log[Len(log)].bmr = result.bmr
    /\ log[Len(log)].maintenance = result.maintenance
    /\ log[Len(log)].weightLoss = result.weightLoss
    /\ log[Len(log)].weightGain = result.weightGain

\* C26: the calorie form is accepted exactly when age, gender, weight, height
\* and activity level are present and age, weight and height parse to
\* numbers greater than 0, whatever their size; an accepted age outside
\* 15-120 adds a warning only: the result is computed, shown and appended to
\* the calorie history as without the warning.
C26_WarningOnly ==
    last.op = "CalorieEstimator._handleCalculate" =>
        /\ Called.shown.success = Acceptable(Called)
        /\ Called.shown.success =>
               ShownAndAppended(Called, ResultOf(Called), StoredLog(localStorage, "calorie_history"))
        /\ ~Called.shown.success =>
               Len(StoredLog(localStorage, "calorie_history")) = Called.held

\* An age of 1000 with a weight of 1000 kg: accepted, shown with the warning
\* and saved.
C26_Witness ==
    /\ last.op = "CalorieEstimator._handleCalculate"
    /\ Called.age = JSString(<<"1", "0", "0", "0">>)
    /\ Called.shown.success
    /\ Called.shown.error = "Results may be less accurate for ages outside 15-120 range"
    /\ Len(StoredLog(localStorage, "calorie_history")) = Called.held + 1

\* C25: every entry of the stored BMI history has a bmi that is a finite
\* positive number: with feet and inches nothing is saved unless the inches
\* are a number in [0,12).
C25_SavedBmiFinitePositive ==
    \A i \in 1..Len(StoredLog(localStorage, "bmi_history")) :
        /\ "null" \notin DOMAIN StoredLog(localStorage, "bmi_history")[i].bmi
        /\ StoredLog(localStorage, "bmi_history")[i].bmi.num > 0

\* The click that saves an entry without a bmi: the inches were no number.
C25_SavedWithoutBmi ==
    /\ last.op = "BMICalculator._handleCalculate"
    /\ last.ret.success
    /\ IsNaN(last.ret.value[1].bmi)
    /\ \E i \in 1..Len(StoredLog(localStorage, "bmi_history")) :
           /\ StoredLog(localStorage, "bmi_history")[i].bmi = JSONNull
           /\ StoredLog(localStorage, "bmi_history")[i].height.inches = JSONNull
\* The places of the least and of the greatest weights of a history.
Least(data) == {i \in 1..Len(data) : \A j \in 1..Len(data) : ~LessThan(data[j].weight, data[i].weight)}
Greatest(data) == {i \in 1..Len(data) : \A j \in 1..Len(data) : ~LessThan(data[i].weight, data[j].weight)}

\* (weight - min) / (max - min) in percent.
Normalized(weight, min, max) == Times(Over(Minus(weight, min), Minus(max, min)), Whole(100))

HeightsOf(data, bars, min, max) ==
    /\ Len(bars) = Len(data)
    /\ \A i \in 1..Len(data) : InClosed(bars[i].height, 0, 100)
    /\ \A i \in Least(data) : bars[i].height = Whole(0)
    /\ IF LessThan(min, max)
       THEN /\ \A i \in 1..Len(data) : bars[i].height = Normalized(data[i].weight, min, max)
            /\ \A i \in Greatest(data) : bars[i].height = Whole(100)
       ELSE \A i \in 1..Len(data) : bars[i].height = Whole(0)

\* C28: for a weight history that is not empty every bar's height is
\* (weight - min) / (max - min) in percent, within [0,100], 0 for a least
\* weight and 100 for a greatest one when max > min; when all weights are
\* equal every height is 0 and nothing is divided by zero.
C28_NormalizedHeights ==
    (last.op = "_renderWeightChart" /\ Len(Called.data) > 0) =>
        /\ ~Called.chart.empty
        /\ Least(Called.data) # {} /\ Greatest(Called.data) # {}
        /\ HeightsOf(Called.data, Called.chart.bars,
                     Called.data[CHOOSE i \in Least(Called.data) : TRUE].weight,
                     Called.data[CHOOSE i \in Greatest(Called.data) : TRUE].weight)

\* Three entries of the same weight: three bars of height 0.
C28_Witness ==
    /\ last.op = "_renderWeightChart"
    /\ Len(Called.data) = MaxEntries
    /\ \A i \in 1..Len(Called.data) : Called.data[i].weight = Fraction(725, 10)
    /\ \A i \in 1..Len(Called.data) : Called.chart.bars[i].height = Whole(0)

\* 70, 72.5 and 80: bars of height 0, 25 and 100.
C28_Spread ==
    /\ last.op = "_renderWeightChart"
    /\ Len(Called.data) = 3
    /\ Called.chart.bars[1].height = Whole(0)
    /\ Called.chart.bars[2].height = Whole(25)
    /\ Called.chart.bars[3].height = Whole(100)
\* The plan of an outcome has the days of the plan in memory, all of them
\* but the named one with the same exercises in the same order.
OthersKept(r, day) ==
    /\ DOMAIN r.weeklyPlan.weeklyPlan = DOMAIN weeklyPlan.weeklyPlan
    /\ \A k \in DayNames \ {toLowerCase(day.str)} :
           r.weeklyPlan.weeklyPlan[k] = weeklyPlan.weeklyPlan[k]

\* C29: addExercise, removeExercise, toggleExerciseCompletion and clearDay
\* change at most the sequence of the day they name: called on any plan the
\* planner can hold, they leave the sequences of the other six days, and
\* every field of their exercises, as they were.
C29_OtherDaysUntouched ==
    \A day \in Inputs.days, now \in ClockReadings :
        /\ \A exerciseName \in Inputs.names, sets \in Inputs.sets, reps \in Inputs.reps,
              random \in Inputs.randoms :
               OthersKept(addExercise(weeklyPlan, localStorage, day, exerciseName, sets, reps,
                                      now, random, TRUE), day)
        /\ \A exerciseId \in ExerciseIds(Inputs) :
               /\ OthersKept(removeExercise(weeklyPlan, localStorage, day, exerciseId, now, TRUE), day)
               /\ OthersKept(toggleExerciseCompletion(weeklyPlan, localStorage, day, exerciseId,
                                                      now, TRUE), day)
        /\ OthersKept(clearDay(weeklyPlan, localStorage, day, now, TRUE), day)

\* An exercise of monday was toggled while sunday held one: monday differs
\* from what it was, sunday does not.
C29_Witness ==
    /\ last.op = "toggleExerciseCompletion" /\ Succeeded(last)
    /\ before[1] = monday
    /\ weeklyPlan.weeklyPlan[monday] # before[3][monday]
    /\ weeklyPlan.weeklyPlan[toLowerCase(sunday.str)] # <<>>
    /\ weeklyPlan.weeklyPlan[toLowerCase(sunday.str)] = before[3][toLowerCase(sunday.str)]
\* The number of completed exercises of a plan.
Completed(plan) == CountDaysFrom(plan, 1).completed

\* C30: no operation of the planner gives an exercise a completedAt, so that
\* the lastWorkoutDate the ProgressTracker derives from the plan, in memory
\* or stored, is 'N/A' however many exercises are completed.
C30_NoLastWorkoutDate ==
    /\ \A k \in DOMAIN weeklyPlan.weeklyPlan : \A i \in DOMAIN weeklyPlan.weeklyPlan[k] :
           "completedAt" \notin DOMAIN weeklyPlan.weeklyPlan[k][i]
    /\ StatsOf(weeklyPlan).lastWorkoutDate = "N/A"
    /\ _getWorkoutHistory(localStorage, TRUE).lastWorkoutDate = "N/A"

\* Three exercises, all of them completed, and no last workout date.
C30_Witness ==
    /\ last.op = "toggleExerciseCompletion" /\ Succeeded(last)
    /\ Completed(weeklyPlan.weeklyPlan) = 3
    /\ _getWorkoutHistory(localStorage, TRUE).totalWorkouts = 3
    /\ _getWorkoutHistory(localStorage, TRUE).lastWorkoutDate = "N/A"
====
